---- MODULE Spec2Model ----
(***************************************************************************)
(* Model of the rate-limited scheduling and persistence core of the       *)
(* FlavumHive framework: the continuous Twitter bot (scheduler, retry     *)
(* loops, status checkpoint), TwitterHandler.post_tweet / reply_to_tweet, *)
(* and the Reddit worker (process_subreddits over the SQLite store).      *)
(*                                                                         *)
(* Time is in whole seconds.  Quantities that the code halves             *)
(* (min_delay/2 in the jitter) are kept doubled: a name ending in 2 is    *)
(* twice the value in seconds.                                             *)
(***************************************************************************)
EXTENDS Integers, Sequences, FiniteSets, TLC

VARIABLES
    \* ---- ContinuousTwitterBot ----
    cfg,              \* config.json: [tph |-> tweets_per_hour, md |-> min_delay_between_actions]
    now,              \* wall clock (datetime.now()), seconds
    pc,               \* position of the bot process in run()
    twitter_handler,  \* TRUE iff self.twitter_handler is not None
    last_tweet_time,  \* self.last_tweet_time (None or seconds)
    status_file,      \* 'last_tweet_time' stored in bot_status.json (None: no file / null)
    base_delay,       \* random.randint draw of the running get_next_tweet_delay
    jitter2,          \* random.uniform draw of the running get_next_tweet_delay, doubled
    delay2,           \* value returned by the running get_next_tweet_delay, doubled
    eligible,         \* value returned by should_post_tweet
    retries,          \* run(): retries
    success,          \* run(): success
    tweet_id,         \* run(): tweet_id, the value post_tweet returned (None or an id)
    retry_count,      \* post_tweet(): retry_count
    last_reply_time,  \* TwitterHandler.last_reply_time
    reply_id,         \* run(): reply_id, the value reply_to_tweet returned
    bot_running,      \* self.running of the continuous bot
    status_running,   \* 'is_running' stored in bot_status.json: "none", "true" or "false"
    \* ---- observers of the external world (not program state) ----
    submitted,        \* times the current tweet content was submitted to the platform
    posted_last,      \* time of the last successful post_tweet (the true last action)
    prev_tweet_time,  \* value of last_tweet_time before the last recording
    mark_time,        \* a recorded tweet chosen as start of an observation window
    mark_count,       \* tweets recorded in the window that starts at mark_time
    loaded,           \* last_tweet_time read by load_status, until the next tweet is recorded
    \* ---- bounds of a run ----
    horizon,          \* the clock value at which exploration stops
    faults,           \* failures injected so far
    fault_cap,        \* failures a run may inject
    \* ---- MultiPlatformBot / RedditHandler and the SQLite store ----
    r_pc,             \* position of the Reddit worker in process_subreddits
    db,               \* committed content of bot.db
    tx,               \* content seen through the worker's connection (db + pending writes)
    listing,          \* items of subreddit.new(limit=5) not yet iterated
    cur,              \* submission being processed (0: none)
    item,             \* how the scan took cur: "none", "seen" or "stored"
    cycles,           \* cycles started so far
    \* ---- observers of Reddit (not program state) ----
    ext_posts,        \* posts on the subreddit, with ids 1 .. ext_posts, newest last
    ext_comments,     \* comments the worker submitted to each post
    dup_insert,       \* an INSERT INTO posts hit the UNIQUE constraint
    restarts,         \* process restarts so far
    gen_ok,           \* the content generator (get_openai_response) answers
    own_submitted,    \* posts the worker submitted to the subreddit
    scanned,          \* posts met by the scan of the running (or last) cycle
    at_start,         \* posts that were on the subreddit when the cycle started
    failure,          \* "none", "item": an item failed, "channel": the cycle or listing did
    pending_ahead,    \* posts with a submitted comment whose row is not committed yet
    ahead,            \* posts with a submitted comment whose persisting failed in this run
    \* ---- threads sharing one RedditHandler ----
    t_pc,             \* position of each thread in process_subreddits / get_db_connection
    tl,               \* self._thread_local: the attributes set, per slot
    conn_local,       \* the connection yielded to the body of each thread (0: none)
    pending,          \* the connection opened by a thread has uncommitted writes
    exc,              \* exception raised in the body of each thread (0: none)
    caught,           \* exception that left get_db_connection on each thread (0: none)
    ops,              \* calls of process_subreddits made by each thread
    foreign_use,      \* a thread used a connection that another thread opened
    \* ---- MultiPlatformBot: workers and supervision ----
    running,          \* self.running
    handlers,         \* the keys of self.platform_handlers, in order
    threads,          \* the list threads of start()
    w_pc,             \* position of the worker of each platform in run_platform
    w_sleep,          \* seconds of the sleep the worker is in (0: not sleeping)
    w_fail,           \* a cycle of this worker thread has raised
    sup_pc,           \* position of the main thread in start()
    sup_i,            \* index of the for loop over threads (from 1)
    sup_p,            \* platform whose thread is being replaced
    deaths,           \* worker threads that died so far
    missed,           \* polls that ended, while running, since a worker died
    waited,           \* seconds spent in thread.join after the interrupt
    \* ---- the decorator handle_rate_limit ----
    rl_pc,            \* position of the wrapper of handle_rate_limit
    rl_attempt,       \* wrapper: attempt
    rl_calls,         \* invocations of func made by the running wrapper call
    rl_waits,         \* the waits of the running wrapper call, in order
    rl_kind,          \* how the wrapper call ended: "pending", "value", "none" or "raised"
    rl_value,         \* the value returned to the caller (0: none)
    rl_error,         \* the exception that reached the caller
    rl_clock,         \* seconds slept by the wrapper so far
    rl_runs,          \* calls of the wrapper so far
    \* ---- the personality manager ----
    pm_loaded,        \* PersonalityManager.__init__ has run
    personalities,    \* self.personalities: name -> supported platforms
    conversation_threads,\* self.conversation_threads: thread id -> name
    pm_op,            \* the last call of the manager
    pm_outcome,       \* how it ended
    pm_ret,           \* the name of the personality it returned
    pm_prev,          \* conversation_threads before that call
    pm_calls,         \* calls of the manager so far
    \* ---- the platform_stats table and the Eliza chat responder ----
    tables,           \* the tables of the database file that exist
    platform_stats,   \* platform_stats: name -> rows of that name and their counter
    eliza_sessions,   \* eliza_sessions: session id -> its row
    eliza_messages,   \* rows of eliza_messages
    db_initialized,   \* init_database has run
    ez_outcome,       \* how the last call of the ElizaHandler ended
    ez_op,            \* the last operation on the database file
    ez_ret,           \* the count cleanup_inactive_sessions returned last
    ez_clock,         \* datetime.now(), in seconds
    ez_elapses,       \* times the clock advanced
    \* ---- the posts table as its schema defines it ----
    posts_table,      \* the rows of posts, as (platform, post_id)
    pt_op,            \* the platform and post_id of the last statement on posts
    pt_outcome,       \* how that statement ended
    \* ---- the rate gate of the TwitterHandler ----
    h_last_tweet_time,\* TwitterHandler.last_tweet_time
    h_last_reply_time,\* TwitterHandler.last_reply_time
    h_clock,          \* datetime.now() of the handler, in seconds
    h_elapses,        \* times that clock advanced
    h_calls,          \* calls of the handler so far
    h_op,             \* the last call of the handler and whether it returned an id
    h_external,       \* calls that went on to the browser
    h_ok_tweet,       \* time of the last post_tweet that returned an id
    h_ok_reply,       \* time of the last reply_to_tweet that returned an id
    \* ---- Tweet (src/platforms/twitter/tweet.py), lengths of strings in characters ----
    tw_pc,            \* position of the tweet: none, built, signed, ValueError
    tw_given,         \* length of the content given to Tweet()
    tw_content,       \* length of tweet.content
    tw_signature      \* length of the signature added, 0 for none

env == <<cfg, horizon, fault_cap>>
draw == <<base_delay, jitter2, delay2, eligible>>
obs == <<submitted, posted_last, prev_tweet_time, mark_time, mark_count>>
sigvars == <<bot_running, status_running, loaded>>

botvars == <<cfg, now, pc, twitter_handler, last_tweet_time, status_file,
             base_delay, jitter2, delay2, eligible, retries, success,
             tweet_id, retry_count, last_reply_time, reply_id,
             submitted, posted_last, prev_tweet_time, mark_time, mark_count,
             horizon, faults, fault_cap, bot_running, status_running, loaded>>

rvars == <<r_pc, db, tx, listing, cur, item, cycles,
           ext_posts, ext_comments, dup_insert, restarts,
           gen_ok, own_submitted, scanned, at_start, failure, pending_ahead, ahead>>

tvars == <<t_pc, tl, conn_local, pending, exc, caught, ops, foreign_use>>
svars == <<running, handlers, threads, w_pc, w_sleep, w_fail, sup_pc, sup_i, sup_p,
           deaths, missed, waited>>

lvars == <<rl_pc, rl_attempt, rl_calls, rl_waits, rl_kind, rl_value, rl_error, rl_clock, rl_runs>>

mvars == <<pm_loaded, personalities, conversation_threads, pm_op, pm_outcome, pm_ret, pm_prev, pm_calls>>

stvars == <<tables, platform_stats, eliza_sessions, eliza_messages, db_initialized, ez_outcome,
            ez_op, ez_ret, ez_clock, ez_elapses>>

ptvars == <<posts_table, pt_op, pt_outcome>>

gvars == <<h_last_tweet_time, h_last_reply_time, h_clock, h_elapses, h_calls, h_op, h_external, h_ok_tweet, h_ok_reply>>

twvars == <<tw_pc, tw_given, tw_content, tw_signature>>

\* what the actions of one component leave alone
nonbot == <<rvars, tvars, svars, lvars, mvars, stvars, ptvars, gvars, twvars>>
nonreddit == <<botvars, tvars, svars, lvars, mvars, stvars, ptvars, gvars, twvars>>
nonthread == <<botvars, rvars, svars, lvars, mvars, stvars, ptvars, gvars, twvars>>
nonsuper == <<botvars, rvars, tvars, lvars, mvars, stvars, ptvars, gvars, twvars>>

nonlimit == <<botvars, rvars, tvars, svars, mvars, stvars, ptvars, gvars, twvars>>

nonmanager == <<botvars, rvars, tvars, svars, lvars, stvars, ptvars, gvars, twvars>>

nonstats == <<botvars, rvars, tvars, svars, lvars, mvars, ptvars, gvars, twvars>>

nontable == <<botvars, rvars, tvars, svars, lvars, mvars, stvars, gvars, twvars>>

nongate == <<botvars, rvars, tvars, svars, lvars, mvars, stvars, ptvars, twvars>>

nontweet == <<botvars, rvars, tvars, svars, lvars, mvars, stvars, ptvars, gvars>>

vars == <<botvars, rvars, tvars, svars, lvars, mvars, stvars, ptvars, gvars, twvars>>

----------------------------------------------------------------------------
(* Constants of the program *)

None == -1
SecondsPerHour == 3600
BotMaxRetries == 3
BotRetryDelay == 300
PollCap == 300
PostMaxRetries == 3
\* least time a successful post_tweet spends in its pacing sleeps: the lower
\* bounds of _add_random_delay on the way to "return tweet_id",
\* 1.0 + 2.0 + 0.5 + 0.5 + 0.5 + 0.5 + 3.0
PostMinDur == 8
\* least time any post_tweet attempt spends: _add_random_delay(1.0, 3.0)
AttemptMinDur == 1
\* subreddit.new(limit=5)
ListLimit == 5
\* thread.join(timeout=10)
JoinTimeout == 10
\* time.sleep(60) after a failed cycle
Backoff == 60
\* rate_limits.get('min_delay_between_actions', 30)
DefaultDelay == 30
\* handle_rate_limit: max_retries = 3
RateLimitMaxRetries == 3
\* handle_rate_limit: retry_delay = 60
RateLimitDelay == 60
\* the 'session_timeout' of the eliza platform configuration
SessionTimeout == 300

(* Bounds of the model *)

\* clock horizon of the run-loop specification (small intervals)
MaxTime == 30
\* clock horizon of the hour-scale specification
HourHorizon == 3700
\* failures injected in a run of the run-loop specification
MaxFaults == 3
\* widest interval whose draws are enumerated in full by the run loop
MaxFullDraw == 16
\* posts that appear on the subreddit
MaxPosts == 2
\* cycles the Reddit worker runs, over all its process lives
MaxCycles == 2
\* kills and restarts of the Reddit worker process
MaxRestarts == 1
\* threads that call into one RedditHandler
MaxThreads == 2
\* calls of process_subreddits made by one thread
MaxOps == 2
\* distinct exceptions a body can raise
MaxExc == 2
\* worker threads that die in one run of start()
MaxDeaths == 2
\* calls of a function decorated with handle_rate_limit
MaxRuns == 2
\* distinct values the decorated function returns
MaxVal == 2
\* calls of the personality manager
MaxCalls == 3
\* Eliza sessions, and rows of eliza_messages
MaxSessions == 2
MaxMessages == 5
\* times the clock of the Eliza responder, or of the Twitter handler, advances
MaxElapses == 2
\* calls of post_tweet and reply_to_tweet made on one TwitterHandler
MaxHandlerCalls == 3

Max(a, b) == IF a >= b THEN a ELSE b
Min(a, b) == IF a <= b THEN a ELSE b

\* configurations of the run-loop specification: short intervals, one with a
\* tweets_per_hour that does not divide 3600, one where min_delay dominates
Configs ==
    { [tph |-> 700, md |-> 2],
      [tph |-> 3600, md |-> 3] }

\* configurations of the hour-scale specification
HourConfigs ==
    { [tph |-> 7, md |-> 257],
      [tph |-> 1, md |-> 300] }

\* configurations and check times of the specification of the delay function
DelayConfigs ==
    { [tph |-> 6, md |-> 0], [tph |-> 6, md |-> 7], [tph |-> 7, md |-> 3],
      [tph |-> 1, md |-> 0], [tph |-> 1800, md |-> 5], [tph |-> 3601, md |-> 0],
      [tph |-> 3601, md |-> 2] }
CheckTimes == {300, 590, 650, 1200, 1204}

----------------------------------------------------------------------------
(* ContinuousTwitterBot: interval derivation and eligibility *)

MinIntervalMin(c) == Min(SecondsPerHour \div c.tph, c.md)
MinInterval(c) == Max(SecondsPerHour \div c.tph, c.md)

MaxIntervalTriple(c) == MinInterval(c) * 3
MaxInterval(c) == MinInterval(c) * 2

\* random.randint(self.min_interval, self.max_interval)
BaseDelays(c) == MinInterval(c) .. MaxInterval(c)
\* random.uniform(-self.min_delay/2, self.min_delay/2), doubled, to half a second
Jitters2(c) == (0 - c.md) .. c.md

get_next_tweet_delay2_nofloor(c, base, j2) == 2 * base + j2
get_next_tweet_delay2_fulljitter(c, base, j2) == Max(2 * MinInterval(c), 2 * base + 2 * j2)
get_next_tweet_delay2(c, base, j2) == Max(2 * MinInterval(c), 2 * base + j2)

should_post_tweet_mindelay(c, last, t, d2) ==
    IF last = None THEN TRUE ELSE (t - last) >= c.md
should_post_tweet(c, last, t, d2) ==
    IF last = None THEN TRUE ELSE 2 * (t - last) >= d2

\* the draws the run loop explores: all of them for a short interval, the
\* extremes (and the centre of the jitter) for a long one
SampleBase(c) ==
    IF MaxInterval(c) - MinInterval(c) <= MaxFullDraw
    THEN BaseDelays(c) ELSE {MinInterval(c), MaxInterval(c)}
SampleJitter2(c) ==
    IF c.md <= MaxFullDraw THEN Jitters2(c) ELSE {0 - c.md, 0, c.md}

\* time.sleep(min(300, self.min_delay)) at the bottom of the loop
SleepTime(c) == Min(PollCap, c.md)

----------------------------------------------------------------------------
(* TwitterHandler *)

\* _check_rate_limit('reply')
check_rate_limit(c, last, t) ==
    ~(last # None /\ t - last < c.md)

\* run(): "if tweet_id: self.last_tweet_time = datetime.now()"
RecordTimeAlways(tid, old, t) == t
RecordTime(tid, old, t) == IF tid # None THEN t ELSE old

----------------------------------------------------------------------------
(* RedditHandler over the SQLite store *)

PostIds == 1 .. MaxPosts

\* bot.db after init_database: no posts, no comments, the 'reddit' row of
\* platform_stats with total_interactions (stats), total_posts and
\* total_comments = 0, and no row in personality_stats (the sum of the
\* total_posts and total_comments of the acting personality's row is 0)
EmptyDb ==
    [posts |-> [p \in PostIds |-> 0], comments |-> 0,
     of_post |-> [p \in PostIds |-> 0], stats |-> 0,
     total_posts |-> 0, total_comments |-> 0, personality_stats |-> 0]

\* the rows of the posts table
RECURSIVE PostRowsUpTo(_, _)
PostRowsUpTo(t, n) == IF n = 0 THEN 0 ELSE t.posts[n] + PostRowsUpTo(t, n - 1)
PostRows(t) == PostRowsUpTo(t, MaxPosts)

\* subreddit.new(limit=5): the newest posts of the subreddit
NewestIds(n) == {p \in 1 .. n : p > n - ListLimit}

\* the newest item of a listing, iterated first
Newest(l) == CHOOSE p \in l : \A q \in l : q <= p

\* SELECT id FROM posts WHERE post_id = ? returned a row
SeenNever(t, p) == FALSE
Seen(t, p) == t.posts[p] > 0

\* posts.post_id is UNIQUE: an INSERT of a stored post_id raises IntegrityError
ViolatesUnique(t, p) == t.posts[p] > 0
InsertPostNone(t, p) == t
InsertPost(t, p) == [t EXCEPT !.posts[p] = @ + 1]
\* a row of comments whose post_id is p
InsertComment(t, p) == [t EXCEPT !.comments = @ + 1, !.of_post[p] = @ + 1]
UpdateStats(t) == [t EXCEPT !.stats = @ + 1]

\* "if post_content:" and "if not comment_text: return": generated text is there
\* iff the generator answered (a failing generator gives None)
HasContentAlways(g) == TRUE
HasContent(g) == g

\* _process_comments returns to its caller: after the own post the listing is
\* fetched, after a scanned item the loop body goes on to conn.commit()
CommentReturns ==
    IF r_pc = "own_comment"
    THEN r_pc' = "scan" /\ listing' = NewestIds(ext_posts)
    ELSE r_pc' = "commit" /\ listing' = listing

\* the with-block of process_subreddits is left normally: commit, cleanup
LeaveCycle ==
    /\ db' = tx
    /\ pending_ahead' = {}
    /\ r_pc' = "idle"
    /\ listing' = {}
    /\ cur' = 0
    /\ item' = "none"

\* run_platform calls process_subreddits; SELECT COUNT(*) succeeds
StartCycle ==
    /\ r_pc = "idle"
    /\ cycles < MaxCycles
    /\ cycles' = cycles + 1
    /\ r_pc' = "own"
    /\ UNCHANGED <<db, tx, listing, cur, item, ext_posts, ext_comments,
                   dup_insert, restarts>>
    /\ scanned' = {}
    /\ at_start' = ext_posts
    /\ failure' = "none"
    /\ UNCHANGED <<gen_ok, own_submitted, pending_ahead, ahead>>
    /\ UNCHANGED nonreddit

\* the connection or the first SELECT raises: rollback, the exception leaves
\* process_subreddits and run_platform logs it and sleeps
CycleFails ==
    /\ r_pc = "idle"
    /\ cycles < MaxCycles
    /\ cycles' = cycles + 1
    /\ tx' = db
    /\ UNCHANGED <<r_pc, db, listing, cur, item, ext_posts, ext_comments,
                   dup_insert, restarts>>
    /\ scanned' = {}
    /\ at_start' = ext_posts
    /\ failure' = "channel"
    /\ UNCHANGED <<gen_ok, own_submitted, pending_ahead, ahead>>
    /\ UNCHANGED nonreddit

\* no personality or no generated content: no own post in this cycle
OwnPostSkip ==
    /\ r_pc = "own"
    /\ r_pc' = "scan"
    /\ listing' = NewestIds(ext_posts)
    /\ UNCHANGED <<db, tx, cur, item, cycles, ext_posts, ext_comments,
                   dup_insert, restarts>>
    /\ UNCHANGED <<gen_ok, own_submitted, scanned, at_start, failure, pending_ahead, ahead>>
    /\ UNCHANGED nonreddit

\* subreddit.submit creates a post and its row is inserted
OwnPostSubmit ==
    /\ r_pc = "own"
    /\ HasContent(gen_ok)
    /\ ext_posts < MaxPosts
    /\ ext_posts' = ext_posts + 1
    /\ cur' = ext_posts + 1
    /\ item' = "none"
    /\ tx' = InsertPost(tx, ext_posts + 1)
    /\ r_pc' = "own_comment"
    /\ UNCHANGED <<db, listing, cycles, ext_comments, dup_insert, restarts>>
    /\ own_submitted' = own_submitted + 1
    /\ UNCHANGED <<gen_ok, scanned, at_start, failure, pending_ahead, ahead>>
    /\ UNCHANGED nonreddit

\* accessing the subreddit, generating or submitting the own post, or
\* fetching the listing raises: logged by the per-subreddit handler, the loop
\* over subreddits ends and the with-block commits
SubredditFails ==
    /\ r_pc \in {"own", "scan"}
    /\ LeaveCycle
    /\ UNCHANGED <<tx, cycles, ext_posts, ext_comments, dup_insert, restarts>>
    /\ failure' = IF r_pc = "own" THEN "item" ELSE "channel"
    /\ UNCHANGED <<gen_ok, own_submitted, scanned, at_start, ahead>>
    /\ UNCHANGED nonreddit

\* _process_comments returns early: no personality, _should_reply() false or
\* no generated text
CommentSkip ==
    /\ r_pc \in {"own_comment", "item_comment"}
    /\ CommentReturns
    /\ UNCHANGED <<db, tx, cur, item, cycles, ext_posts, ext_comments,
                   dup_insert, restarts>>
    /\ UNCHANGED <<gen_ok, own_submitted, scanned, at_start, failure, pending_ahead, ahead>>
    /\ UNCHANGED nonreddit

\* _process_comments raises outside its try block (_should_reply, lazy
\* attributes of the submission): after the own post the per-subreddit handler
\* ends the cycle, in the scan the item is skipped without conn.commit()
CommentRaises ==
    /\ r_pc \in {"own_comment", "item_comment"}
    /\ IF r_pc = "own_comment"
       THEN LeaveCycle
       ELSE /\ r_pc' = "scan"
            /\ UNCHANGED <<db, listing, cur, item, pending_ahead>>
    /\ UNCHANGED <<tx, cycles, ext_posts, ext_comments, dup_insert, restarts>>
    /\ failure' = "item"
    /\ UNCHANGED <<gen_ok, own_submitted, scanned, at_start, ahead>>
    /\ UNCHANGED nonreddit

\* submission.reply raises: logged and swallowed
ReplyRaises ==
    /\ r_pc \in {"own_comment", "item_comment"}
    /\ HasContent(gen_ok)
    /\ CommentReturns
    /\ UNCHANGED <<db, tx, cur, item, cycles, ext_posts, ext_comments,
                   dup_insert, restarts>>
    /\ failure' = "item"
    /\ UNCHANGED <<gen_ok, own_submitted, scanned, at_start, pending_ahead, ahead>>
    /\ UNCHANGED nonreddit

\* the comment is submitted, its row inserted and the stats row updated
CommentRecorded ==
    /\ r_pc \in {"own_comment", "item_comment"}
    /\ HasContent(gen_ok)
    /\ ext_comments' = [ext_comments EXCEPT ![cur] = @ + 1]
    /\ tx' = UpdateStats(InsertComment(tx, cur))
    /\ CommentReturns
    /\ UNCHANGED <<db, cur, item, cycles, ext_posts, dup_insert, restarts>>
    /\ pending_ahead' = pending_ahead \cup {cur}
    /\ UNCHANGED <<gen_ok, own_submitted, scanned, at_start, failure, ahead>>
    /\ UNCHANGED nonreddit

\* the comment is submitted and INSERT INTO comments raises: logged and swallowed
CommentInsertFails ==
    /\ r_pc \in {"own_comment", "item_comment"}
    /\ HasContent(gen_ok)
    /\ ext_comments' = [ext_comments EXCEPT ![cur] = @ + 1]
    /\ CommentReturns
    /\ UNCHANGED <<db, tx, cur, item, cycles, ext_posts, dup_insert, restarts>>
    /\ failure' = "item"
    /\ ahead' = ahead \cup {cur}
    /\ UNCHANGED <<gen_ok, own_submitted, scanned, at_start, pending_ahead>>
    /\ UNCHANGED nonreddit

\* the comment is submitted, its row inserted, and UPDATE platform_stats
\* raises: logged and swallowed, the inserted row stays pending
CommentStatFails ==
    /\ r_pc \in {"own_comment", "item_comment"}
    /\ HasContent(gen_ok)
    /\ ext_comments' = [ext_comments EXCEPT ![cur] = @ + 1]
    /\ tx' = InsertComment(tx, cur)
    /\ CommentReturns
    /\ UNCHANGED <<db, cur, item, cycles, ext_posts, dup_insert, restarts>>
    /\ failure' = "item"
    /\ pending_ahead' = pending_ahead \cup {cur}
    /\ UNCHANGED <<gen_ok, own_submitted, scanned, at_start, ahead>>
    /\ UNCHANGED nonreddit

\* the next item of the listing is already stored: nothing to do for it
ScanSeen ==
    /\ r_pc = "scan" /\ listing # {}
    /\ Seen(tx, Newest(listing))
    /\ cur' = Newest(listing)
    /\ item' = "seen"
    /\ listing' = listing \ {Newest(listing)}
    /\ r_pc' = "commit"
    /\ UNCHANGED <<db, tx, cycles, ext_posts, ext_comments, dup_insert, restarts>>
    /\ scanned' = scanned \cup {Newest(listing)}
    /\ UNCHANGED <<gen_ok, own_submitted, at_start, failure, pending_ahead, ahead>>
    /\ UNCHANGED nonreddit

\* the next item is not stored: INSERT INTO posts, then _process_comments;
\* an INSERT that violates UNIQUE raises and the item is skipped
ScanStore ==
    /\ r_pc = "scan" /\ listing # {}
    /\ ~Seen(tx, Newest(listing))
    /\ cur' = Newest(listing)
    /\ listing' = listing \ {Newest(listing)}
    /\ IF ViolatesUnique(tx, Newest(listing))
       THEN /\ dup_insert' = TRUE
            /\ item' = "none"
            /\ r_pc' = "scan"
            /\ tx' = tx
       ELSE /\ dup_insert' = dup_insert
            /\ item' = "stored"
            /\ r_pc' = "item_comment"
            /\ tx' = InsertPost(tx, Newest(listing))
    /\ UNCHANGED <<db, cycles, ext_posts, ext_comments, restarts>>
    /\ scanned' = scanned \cup {Newest(listing)}
    /\ UNCHANGED <<gen_ok, own_submitted, at_start, failure, pending_ahead, ahead>>
    /\ UNCHANGED nonreddit

\* the INSERT of a new item raises another database error: the item is
\* skipped without conn.commit()
ScanStoreFails ==
    /\ r_pc = "scan" /\ listing # {}
    /\ ~Seen(tx, Newest(listing))
    /\ cur' = Newest(listing)
    /\ item' = "none"
    /\ listing' = listing \ {Newest(listing)}
    /\ UNCHANGED <<r_pc, db, tx, cycles, ext_posts, ext_comments, dup_insert,
                   restarts>>
    /\ scanned' = scanned \cup {Newest(listing)}
    /\ failure' = "item"
    /\ UNCHANGED <<gen_ok, own_submitted, at_start, pending_ahead, ahead>>
    /\ UNCHANGED nonreddit

\* conn.commit() at the end of the loop body
Commit ==
    /\ r_pc = "commit"
    /\ db' = tx
    /\ r_pc' = "scan"
    /\ UNCHANGED <<tx, listing, cur, item, cycles, ext_posts, ext_comments,
                   dup_insert, restarts>>
    /\ pending_ahead' = {}
    /\ UNCHANGED <<gen_ok, own_submitted, scanned, at_start, failure, ahead>>
    /\ UNCHANGED nonreddit

\* the listing is exhausted: the with-block commits and the cycle ends
EndCycle ==
    /\ r_pc = "scan" /\ listing = {}
    /\ LeaveCycle
    /\ UNCHANGED <<tx, cycles, ext_posts, ext_comments, dup_insert, restarts>>
    /\ UNCHANGED <<gen_ok, own_submitted, scanned, at_start, failure, ahead>>
    /\ UNCHANGED nonreddit

\* conn.commit() at the end of the loop body raises: the per-subreddit
\* handler logs it, the loop over subreddits ends and the with-block commits
CommitFails ==
    /\ r_pc = "commit"
    /\ LeaveCycle
    /\ failure' = "item"
    /\ UNCHANGED <<tx, cycles, ext_posts, ext_comments, dup_insert, restarts>>
    /\ UNCHANGED <<gen_ok, own_submitted, scanned, at_start, ahead>>
    /\ UNCHANGED nonreddit

\* the commit of the with-block raises (after a failed conn.commit(), or at
\* the end of the listing): the exception leaves process_subreddits, whose
\* finally closes the connection, so the pending writes are lost; run_platform
\* logs the exception and sleeps
CycleCommitFails ==
    /\ r_pc = "commit" \/ (r_pc = "scan" /\ listing = {})
    /\ tx' = db
    /\ ahead' = ahead \cup pending_ahead
    /\ pending_ahead' = {}
    /\ failure' = IF r_pc = "commit" THEN "item" ELSE "channel"
    /\ r_pc' = "idle"
    /\ listing' = {}
    /\ cur' = 0
    /\ item' = "none"
    /\ UNCHANGED <<db, cycles, ext_posts, ext_comments, dup_insert, restarts>>
    /\ UNCHANGED <<gen_ok, own_submitted, scanned, at_start>>
    /\ UNCHANGED nonreddit

\* the content generator stops answering between two cycles, and stays down
GeneratorDown ==
    /\ r_pc = "idle"
    /\ gen_ok
    /\ gen_ok' = FALSE
    /\ UNCHANGED <<r_pc, db, tx, listing, cur, item, cycles, ext_posts,
                   ext_comments, dup_insert, restarts>>
    /\ UNCHANGED <<own_submitted, scanned, at_start, failure, pending_ahead, ahead>>
    /\ UNCHANGED nonreddit

\* somebody else posts to the subreddit
ExternalPost ==
    /\ ext_posts < MaxPosts
    /\ ext_posts' = ext_posts + 1
    /\ UNCHANGED <<r_pc, db, tx, listing, cur, item, cycles, ext_comments,
                   dup_insert, restarts>>
    /\ UNCHANGED <<gen_ok, own_submitted, scanned, at_start, failure, pending_ahead, ahead>>
    /\ UNCHANGED nonreddit

\* the process is killed: pending writes of the connection are lost
Kill ==
    /\ r_pc # "dead"
    /\ restarts < MaxRestarts
    /\ r_pc' = "dead"
    /\ tx' = db
    /\ listing' = {}
    /\ cur' = 0
    /\ item' = "none"
    /\ UNCHANGED <<db, cycles, ext_posts, ext_comments, dup_insert, restarts>>
    /\ pending_ahead' = {}
    /\ scanned' = {}
    /\ at_start' = 0
    /\ failure' = "none"
    /\ UNCHANGED <<gen_ok, own_submitted, ahead>>
    /\ UNCHANGED nonreddit

\* the process is started again: MultiPlatformBot.__init__ calls
\* init_database(force_recreate=True), which removes bot.db and creates it anew
Start ==
    /\ r_pc = "dead"
    /\ restarts' = restarts + 1
    /\ db' = EmptyDb
    /\ tx' = EmptyDb
    /\ r_pc' = "idle"
    /\ UNCHANGED <<listing, cur, item, cycles, ext_posts, ext_comments, dup_insert>>
    /\ scanned' = {}
    /\ at_start' = 0
    /\ failure' = "none"
    /\ pending_ahead' = {}
    /\ ahead' = {}
    /\ UNCHANGED <<gen_ok, own_submitted>>
    /\ UNCHANGED nonreddit

RedditInit ==
    /\ r_pc = "idle"
    /\ db = EmptyDb
    /\ tx = EmptyDb
    /\ listing = {}
    /\ cur = 0
    /\ item = "none"
    /\ cycles = 0
    /\ ext_posts = 0
    /\ ext_comments = [p \in PostIds |-> 0]
    /\ dup_insert = FALSE
    /\ restarts = 0
    /\ gen_ok = TRUE
    /\ own_submitted = 0
    /\ scanned = {}
    /\ at_start = 0
    /\ failure = "none"
    /\ pending_ahead = {}
    /\ ahead = {}

RedditNext ==
    \/ StartCycle \/ CycleFails
    \/ OwnPostSkip \/ OwnPostSubmit \/ SubredditFails
    \/ CommentSkip \/ CommentRaises \/ ReplyRaises
    \/ CommentRecorded \/ CommentInsertFails \/ CommentStatFails
    \/ ScanSeen \/ ScanStore \/ ScanStoreFails \/ Commit \/ EndCycle
    \/ CommitFails \/ CycleCommitFails
    \/ GeneratorDown \/ ExternalPost
    \/ Kill \/ Start

----------------------------------------------------------------------------
(* RedditHandler: thread-local connection state and the scoped database     *)
(* operation get_db_connection, for several threads sharing one handler     *)

Threads == 1 .. MaxThreads

\* the thread that constructed the handler (__init__ runs _init_thread_state)
Constructor == 1

\* self._thread_local: every thread reads and writes its own attributes
SlotShared(t) == Constructor
Slot(t) == t

\* no attribute set (a thread that never touched the handler)
NoState == [has_state |-> FALSE, transaction_count |-> 0,
            connection_active |-> FALSE, connection_thread_id |-> 0,
            db_conn |-> 0, db_cursor |-> 0]

\* _init_thread_state
InitThreadState(st) ==
    [st EXCEPT !.has_state = TRUE, !.transaction_count = 0,
               !.connection_active = FALSE, !.connection_thread_id = 0]

\* get_db_connection up to "self._thread_local.transaction_count += 1"
EnterCount(st) ==
    LET s1 == IF st.has_state THEN st ELSE InitThreadState(st)
    IN  [s1 EXCEPT !.transaction_count = @ + 1]

\* _cleanup_thread: the cursor is closed and deleted; the connection is closed,
\* the state re-initialised and the attribute deleted
CleanupThread(st) ==
    IF st.db_conn # 0
    THEN [InitThreadState(st) EXCEPT !.db_conn = 0, !.db_cursor = 0]
    ELSE [st EXCEPT !.db_cursor = 0]

\* a connection is opened by thread t and recorded in the state
Opened(st, t) ==
    [InitThreadState(st) EXCEPT !.db_conn = t, !.connection_thread_id = t,
                                !.connection_active = TRUE]

\* the db_conn property read by thread t
DbConn(st, t) ==
    IF st.db_conn = 0 THEN Opened(st, t)
    ELSE IF st.connection_thread_id # t THEN Opened(CleanupThread(st), t)
    ELSE st

\* the db_cursor property
DbCursor(st) == IF st.db_cursor = 0 THEN [st EXCEPT !.db_cursor = st.db_conn] ELSE st

\* the finally block of get_db_connection
ExitCount(st) ==
    LET c == Max(0, st.transaction_count - 1)
    IN  [st EXCEPT !.transaction_count = c,
                   !.connection_active = IF c = 0 THEN FALSE ELSE @]

\* "raise" in the except block: the exception in flight goes on
Reraise(e) == e

\* scoped operations in progress on thread t
InProgress(t) ==
    IF t_pc[t] \in {"entered", "select", "body", "exiting", "failed"} THEN 1 ELSE 0

\* thread t uses connection c (execute, commit, rollback, close)
Uses(t, cs) == foreign_use' = (foreign_use \/ \E c \in cs : c # 0 /\ c # t)

\* process_subreddits is called on thread t; get_db_connection counts it in
Enter(t) ==
    /\ t_pc[t] = "out"
    /\ ops[t] < MaxOps
    /\ ops' = [ops EXCEPT ![t] = @ + 1]
    /\ tl' = [tl EXCEPT ![Slot(t)] = EnterCount(@)]
    /\ t_pc' = [t_pc EXCEPT ![t] = "entered"]
    /\ UNCHANGED <<conn_local, pending, exc, caught, foreign_use>>
    /\ UNCHANGED nonthread

\* "conn = self.db_conn; cursor = self.db_cursor": the connection is opened
\* if the thread has none, and handed to the body
Acquire(t) ==
    /\ t_pc[t] = "entered"
    /\ tl' = [tl EXCEPT ![Slot(t)] = DbCursor(DbConn(@, t))]
    /\ conn_local' = [conn_local EXCEPT ![t] = tl'[Slot(t)].db_conn]
    /\ pending' = IF tl[Slot(t)].db_conn = tl'[Slot(t)].db_conn
                  THEN pending
                  ELSE [pending EXCEPT ![t] = FALSE]
    /\ Uses(t, {tl[Slot(t)].db_conn, tl'[Slot(t)].db_conn})
    /\ t_pc' = [t_pc EXCEPT ![t] = "select"]
    /\ UNCHANGED <<ops, exc, caught>>
    /\ UNCHANGED nonthread

\* sqlite3.connect raises in db_conn: the except block finds no connection to
\* roll back, re-raises, and the finally block counts the operation out
AcquireFails(t) ==
    /\ t_pc[t] = "entered"
    /\ tl[Slot(t)].db_conn = 0
    /\ \E e \in (1 .. MaxExc) :
         /\ exc' = [exc EXCEPT ![t] = e]
         /\ caught' = [caught EXCEPT ![t] = Reraise(e)]
    /\ tl' = [tl EXCEPT ![Slot(t)] = ExitCount(InitThreadState(@))]
    /\ t_pc' = [t_pc EXCEPT ![t] = "after"]
    /\ UNCHANGED <<ops, conn_local, pending, foreign_use>>
    /\ UNCHANGED nonthread

\* SELECT COUNT(*) FROM posts succeeds: the body goes on to the subreddits
SelectOk(t) ==
    /\ t_pc[t] = "select"
    /\ Uses(t, {conn_local[t]})
    /\ t_pc' = [t_pc EXCEPT ![t] = "body"]
    /\ UNCHANGED <<tl, ops, conn_local, pending, exc, caught>>
    /\ UNCHANGED nonthread

\* SELECT COUNT(*) raises: the body of the with-block is left by an exception
SelectRaises(t) ==
    /\ t_pc[t] = "select"
    /\ Uses(t, {conn_local[t]})
    /\ \E e \in (1 .. MaxExc) : exc' = [exc EXCEPT ![t] = e]
    /\ t_pc' = [t_pc EXCEPT ![t] = "failed"]
    /\ UNCHANGED <<tl, ops, conn_local, pending, caught>>
    /\ UNCHANGED nonthread

\* an INSERT or UPDATE of the body: a write is pending on the connection
BodyWrite(t) ==
    /\ t_pc[t] = "body"
    /\ conn_local[t] # 0
    /\ pending' = [pending EXCEPT ![conn_local[t]] = TRUE]
    /\ Uses(t, {conn_local[t]})
    /\ UNCHANGED <<tl, t_pc, ops, conn_local, exc, caught>>
    /\ UNCHANGED nonthread

\* conn.commit() of the loop body
BodyCommit(t) ==
    /\ t_pc[t] = "body"
    /\ conn_local[t] # 0
    /\ pending[conn_local[t]]
    /\ pending' = [pending EXCEPT ![conn_local[t]] = FALSE]
    /\ Uses(t, {conn_local[t]})
    /\ UNCHANGED <<tl, t_pc, ops, conn_local, exc, caught>>
    /\ UNCHANGED nonthread

\* the loop over the subreddits ends; every exception of an item was handled
\* inside the body
BodyEnds(t) ==
    /\ t_pc[t] = "body"
    /\ t_pc' = [t_pc EXCEPT ![t] = "exiting"]
    /\ UNCHANGED <<tl, ops, conn_local, pending, exc, caught, foreign_use>>
    /\ UNCHANGED nonthread

\* the else and finally blocks: commit on the thread's connection, count out
ScopeCommit(t) ==
    /\ t_pc[t] = "exiting"
    /\ pending' = IF tl[Slot(t)].db_conn # 0
                  THEN [pending EXCEPT ![tl[Slot(t)].db_conn] = FALSE]
                  ELSE pending
    /\ Uses(t, {tl[Slot(t)].db_conn})
    /\ tl' = [tl EXCEPT ![Slot(t)] = ExitCount(@)]
    /\ t_pc' = [t_pc EXCEPT ![t] = "after"]
    /\ UNCHANGED <<ops, conn_local, exc, caught>>
    /\ UNCHANGED nonthread

\* the except and finally blocks: rollback on the thread's connection,
\* re-raise, count out
ScopeRollback(t) ==
    /\ t_pc[t] = "failed"
    /\ pending' = IF tl[Slot(t)].db_conn # 0
                  THEN [pending EXCEPT ![tl[Slot(t)].db_conn] = FALSE]
                  ELSE pending
    /\ Uses(t, {tl[Slot(t)].db_conn})
    /\ caught' = [caught EXCEPT ![t] = Reraise(exc[t])]
    /\ tl' = [tl EXCEPT ![Slot(t)] = ExitCount(@)]
    /\ t_pc' = [t_pc EXCEPT ![t] = "after"]
    /\ UNCHANGED <<ops, conn_local, exc>>
    /\ UNCHANGED nonthread

\* the finally block of process_subreddits: a connection marked inactive is
\* cleaned up; the call returns, or its exception goes to run_platform
Leave(t) ==
    /\ t_pc[t] = "after"
    /\ IF tl[Slot(t)].has_state /\ ~tl[Slot(t)].connection_active
       THEN /\ tl' = [tl EXCEPT ![Slot(t)] = CleanupThread(@)]
            /\ Uses(t, {tl[Slot(t)].db_conn, tl[Slot(t)].db_cursor})
       ELSE UNCHANGED <<tl, foreign_use>>
    /\ conn_local' = [conn_local EXCEPT ![t] = 0]
    /\ exc' = [exc EXCEPT ![t] = 0]
    /\ caught' = [caught EXCEPT ![t] = 0]
    /\ t_pc' = [t_pc EXCEPT ![t] = "out"]
    /\ UNCHANGED <<ops, pending>>
    /\ UNCHANGED nonthread

ThreadInit ==
    /\ t_pc = [t \in Threads |-> "out"]
    /\ tl = [t \in Threads |-> IF t = Constructor THEN InitThreadState(NoState)
                                                 ELSE NoState]
    /\ ops = [t \in Threads |-> 0]
    /\ conn_local = [t \in Threads |-> 0]
    /\ pending = [t \in Threads |-> FALSE]
    /\ exc = [t \in Threads |-> 0]
    /\ caught = [t \in Threads |-> 0]
    /\ foreign_use = FALSE

ThreadNext ==
    \E t \in Threads :
        \/ Enter(t) \/ Acquire(t) \/ AcquireFails(t)
        \/ SelectOk(t) \/ SelectRaises(t)
        \/ BodyWrite(t) \/ BodyCommit(t) \/ BodyEnds(t)
        \/ ScopeCommit(t) \/ ScopeRollback(t)
        \/ Leave(t)

----------------------------------------------------------------------------
(* MultiPlatformBot: the worker loop run_platform, the supervision loop of  *)
(* start, the interrupt and stop                                            *)

\* the platforms initialize_platforms can enable, in the order of the dict
Platforms == {"reddit", "eliza"}
PlatformLists == {<<"reddit">>, <<"eliza">>, <<"reddit", "eliza">>}

\* thread.is_alive() for a worker at position pc
AliveAlways(pos) == TRUE
Alive(pos) == pos \notin {"dead", "exited", "none"}

\* an element of the list threads: a thread object of a platform; old is
\* TRUE for the object of a thread that has been replaced
Entry(p) == [name |-> p, old |-> FALSE]
\* thread.is_alive() for an element of the list
EntryAliveNever(e) == FALSE
EntryAlive(e) == ~e.old /\ Alive(w_pc[e.name])

\* threads.remove(thread): the element at that index leaves the list
RemoveAt(s, i) == [k \in 1 .. Len(s) - 1 |-> IF k < i THEN s[k] ELSE s[k + 1]]

\* the except block of run_platform: sleep only while still running
AfterExceptionExit(r) == "exited"
AfterException(r) == IF r THEN "backoff" ELSE "check"

\* the while condition of run_platform
LoopTest(r) == IF r THEN "cycle" ELSE "exited"

\* thread.join(timeout=10) returns after d seconds: when the thread has
\* ended, or when the timeout has run out
JoinReturnsNoTimeout(ended, d) == ended
JoinReturns(ended, d) == ended \/ d = JoinTimeout

\* "while self.running:" is evaluated by the worker of platform p
LoopCheck(p) ==
    /\ sup_pc # "stopped"
    /\ w_pc[p] = "check"
    /\ w_pc' = [w_pc EXCEPT ![p] = LoopTest(running)]
    /\ UNCHANGED <<running, handlers, threads, w_sleep, w_fail, sup_pc, sup_i, sup_p,
                   deaths, missed, waited>>
    /\ UNCHANGED nonsuper

\* the cycle (process_subreddits or cleanup_inactive_sessions) returns; the
\* worker sleeps the configured delay
CycleOk(p) ==
    /\ sup_pc # "stopped"
    /\ w_pc[p] = "cycle"
    /\ w_pc' = [w_pc EXCEPT ![p] = "sleep"]
    /\ w_sleep' = [w_sleep EXCEPT ![p] = DefaultDelay]
    /\ UNCHANGED <<running, handlers, threads, w_fail, sup_pc, sup_i, sup_p, deaths,
                   missed, waited>>
    /\ UNCHANGED nonsuper

\* the cycle raises an Exception
CycleRaises(p) ==
    /\ sup_pc # "stopped"
    /\ w_pc[p] = "cycle"
    /\ w_pc' = [w_pc EXCEPT ![p] = "except"]
    /\ w_fail' = [w_fail EXCEPT ![p] = TRUE]
    /\ UNCHANGED <<running, handlers, threads, w_sleep, sup_pc, sup_i, sup_p, deaths,
                   missed, waited>>
    /\ UNCHANGED nonsuper

\* the except block: log, "if self.running: time.sleep(60)"
HandleFailure(p) ==
    /\ sup_pc # "stopped"
    /\ w_pc[p] = "except"
    /\ w_pc' = [w_pc EXCEPT ![p] = AfterException(running)]
    /\ w_sleep' = [w_sleep EXCEPT ![p] = IF running THEN Backoff ELSE 0]
    /\ UNCHANGED <<running, handlers, threads, w_fail, sup_pc, sup_i, sup_p, deaths,
                   missed, waited>>
    /\ UNCHANGED nonsuper

\* a sleep of the worker ends: back to the while condition
SleepEnds(p) ==
    /\ sup_pc # "stopped"
    /\ w_pc[p] \in {"sleep", "backoff"}
    /\ w_pc' = [w_pc EXCEPT ![p] = "check"]
    /\ w_sleep' = [w_sleep EXCEPT ![p] = 0]
    /\ UNCHANGED <<running, handlers, threads, w_fail, sup_pc, sup_i, sup_p, deaths,
                   missed, waited>>
    /\ UNCHANGED nonsuper

\* the worker thread ends by something "except Exception" does not catch
Die(p) ==
    /\ sup_pc # "stopped"
    /\ w_pc[p] \in {"cycle", "sleep", "except", "backoff"}
    /\ deaths < MaxDeaths
    /\ deaths' = deaths + 1
    /\ w_pc' = [w_pc EXCEPT ![p] = "dead"]
    /\ w_sleep' = [w_sleep EXCEPT ![p] = 0]
    /\ UNCHANGED <<running, handlers, threads, w_fail, sup_pc, sup_i, sup_p, missed, waited>>
    /\ UNCHANGED nonsuper

\* MultiPlatformBot.__init__: the enabled platforms get a handler, the
\* running flag is set
Construct ==
    /\ sup_pc = "new"
    /\ handlers' \in PlatformLists
    /\ running' = TRUE
    /\ sup_pc' = "launch"
    /\ sup_i' = 1
    /\ UNCHANGED <<threads, w_pc, w_sleep, w_fail, sup_p, deaths, missed, waited>>
    /\ UNCHANGED nonsuper

\* a handler constructor raises in initialize_platforms: __init__ re-raises,
\* main() logs the error and calls sys.exit(1)
ConstructFails ==
    /\ sup_pc = "new"
    /\ sup_pc' = "stopped"
    /\ UNCHANGED <<running, handlers, threads, w_pc, w_sleep, w_fail, sup_i, sup_p,
                   deaths, missed, waited>>
    /\ UNCHANGED nonsuper

\* the first loop of start(): a thread is started for the next platform and
\* appended to threads; after the last one the try block is entered
Launch ==
    /\ sup_pc = "launch"
    /\ IF sup_i <= Len(handlers)
       THEN /\ w_pc' = [w_pc EXCEPT ![handlers[sup_i]] = "check"]
            /\ threads' = Append(threads, Entry(handlers[sup_i]))
            /\ sup_i' = sup_i + 1
            /\ sup_pc' = sup_pc
       ELSE /\ sup_pc' = "examine"
            /\ sup_i' = 1
            /\ UNCHANGED <<w_pc, threads>>
    /\ UNCHANGED <<running, handlers, w_sleep, w_fail, sup_p, deaths, missed, waited>>
    /\ UNCHANGED nonsuper

\* "for thread in threads: if not thread.is_alive():" for the next element
Examine ==
    /\ sup_pc = "examine"
    /\ sup_i <= Len(threads)
    /\ IF EntryAlive(threads[sup_i])
       THEN sup_i' = sup_i + 1 /\ sup_pc' = sup_pc
       ELSE sup_i' = sup_i /\ sup_pc' = "check_running"
    /\ UNCHANGED <<running, handlers, threads, w_pc, w_sleep, w_fail, sup_p, deaths,
                   missed, waited>>
    /\ UNCHANGED nonsuper

\* the for loop is over: time.sleep(60)
PollEnds ==
    /\ sup_pc = "examine"
    /\ sup_i > Len(threads)
    /\ sup_pc' = "sleep"
    /\ missed' = [p \in Platforms |->
                    IF running /\ w_pc[p] = "dead" THEN missed[p] + 1 ELSE missed[p]]
    /\ UNCHANGED <<running, handlers, threads, w_pc, w_sleep, w_fail, sup_i, sup_p,
                   deaths, waited>>
    /\ UNCHANGED nonsuper

\* "if self.running:" for a thread found dead
CheckRunning ==
    /\ sup_pc = "check_running"
    /\ IF running
       THEN /\ sup_pc' = "start"
            /\ sup_p' = threads[sup_i].name
            /\ sup_i' = sup_i
       ELSE /\ sup_pc' = "examine"
            /\ sup_p' = sup_p
            /\ sup_i' = sup_i + 1
    /\ UNCHANGED <<running, handlers, threads, w_pc, w_sleep, w_fail, deaths, missed, waited>>
    /\ UNCHANGED nonsuper

\* new_thread.start(): a new worker of the platform runs
StartThread ==
    /\ sup_pc = "start"
    /\ w_pc' = [w_pc EXCEPT ![sup_p] = "check"]
    /\ w_sleep' = [w_sleep EXCEPT ![sup_p] = 0]
    /\ w_fail' = [w_fail EXCEPT ![sup_p] = FALSE]
    /\ threads' = [threads EXCEPT ![sup_i].old = TRUE]
    /\ missed' = [missed EXCEPT ![sup_p] = 0]
    /\ sup_pc' = "remove"
    /\ UNCHANGED <<running, handlers, sup_i, sup_p, deaths, waited>>
    /\ UNCHANGED nonsuper

\* threads.remove(thread)
RemoveOld ==
    /\ sup_pc = "remove"
    /\ threads' = RemoveAt(threads, sup_i)
    /\ sup_pc' = "append"
    /\ UNCHANGED <<running, handlers, w_pc, w_sleep, w_fail, sup_i, sup_p, deaths,
                   missed, waited>>
    /\ UNCHANGED nonsuper

\* threads.append(new_thread); the for loop goes on with the next index
AppendNew ==
    /\ sup_pc = "append"
    /\ threads' = Append(threads, Entry(sup_p))
    /\ sup_pc' = "examine"
    /\ sup_i' = sup_i + 1
    /\ sup_p' = "none"
    /\ UNCHANGED <<running, handlers, w_pc, w_sleep, w_fail, deaths, missed, waited>>
    /\ UNCHANGED nonsuper

\* time.sleep(60) of the supervision loop ends: the next poll begins
Wake ==
    /\ sup_pc = "sleep"
    /\ sup_pc' = "examine"
    /\ sup_i' = 1
    /\ UNCHANGED <<running, handlers, threads, w_pc, w_sleep, w_fail, sup_p, deaths,
                   missed, waited>>
    /\ UNCHANGED nonsuper

\* KeyboardInterrupt in the main thread, anywhere in the try block
Interrupt ==
    /\ sup_pc \in {"examine", "check_running", "start", "remove", "append", "sleep"}
    /\ running' = FALSE
    /\ sup_pc' = "joining"
    /\ sup_i' = 1
    /\ sup_p' = "none"
    /\ UNCHANGED <<handlers, threads, w_pc, w_sleep, w_fail, deaths, missed, waited>>
    /\ UNCHANGED nonsuper

\* KeyboardInterrupt outside the try block (in the first loop of start(), or
\* a second one during the joins): it leaves start() and main()
InterruptOutside ==
    /\ sup_pc \in {"launch", "joining"}
    /\ sup_pc' = "stopped"
    /\ UNCHANGED <<running, handlers, threads, w_pc, w_sleep, w_fail, sup_i,
                   sup_p, deaths, missed, waited>>
    /\ UNCHANGED nonsuper

\* stop() is called by another thread while start() runs
Stop ==
    /\ sup_pc \notin {"new", "joining", "stopped"}
    /\ running
    /\ running' = FALSE
    /\ UNCHANGED <<handlers, threads, w_pc, w_sleep, w_fail, sup_pc, sup_i, sup_p,
                   deaths, missed, waited>>
    /\ UNCHANGED nonsuper

\* thread.join(timeout=10) for the next element of threads
Join ==
    /\ sup_pc = "joining"
    /\ sup_i <= Len(threads)
    /\ \E d \in 0 .. JoinTimeout :
         /\ JoinReturns(~EntryAlive(threads[sup_i]), d)
         /\ waited' = waited + d
    /\ sup_i' = sup_i + 1
    /\ UNCHANGED <<running, handlers, threads, w_pc, w_sleep, w_fail, sup_pc, sup_p,
                   deaths, missed>>
    /\ UNCHANGED nonsuper

\* every thread of the list was waited for: "Bot shutdown complete"
Finish ==
    /\ sup_pc = "joining"
    /\ sup_i > Len(threads)
    /\ sup_pc' = "stopped"
    /\ UNCHANGED <<running, handlers, threads, w_pc, w_sleep, w_fail, sup_i, sup_p,
                   deaths, missed, waited>>
    /\ UNCHANGED nonsuper

\* before MultiPlatformBot is constructed
SuperInit ==
    /\ running = FALSE
    /\ handlers = <<>>
    /\ threads = <<>>
    /\ w_pc = [p \in Platforms |-> "none"]
    /\ w_sleep = [p \in Platforms |-> 0]
    /\ w_fail = [p \in Platforms |-> FALSE]
    /\ sup_pc = "new"
    /\ sup_i = 1
    /\ sup_p = "none"
    /\ deaths = 0
    /\ missed = [p \in Platforms |-> 0]
    /\ waited = 0

WorkerNext ==
    \E p \in Platforms :
        \/ LoopCheck(p) \/ CycleOk(p) \/ CycleRaises(p)
        \/ HandleFailure(p) \/ SleepEnds(p)

SupervisorNext ==
    \/ Construct \/ ConstructFails \/ Launch
    \/ Examine \/ PollEnds \/ CheckRunning
    \/ StartThread \/ RemoveOld \/ AppendNew
    \/ Wake \/ Join \/ Finish

SuperNext ==
    \/ WorkerNext
    \/ SupervisorNext
    \/ \E p \in Platforms : Die(p)
    \/ Interrupt
    \/ InterruptOutside
    \/ Stop

----------------------------------------------------------------------------
(* handle_rate_limit: the wrapper around a fallible Reddit call *)

\* messages an exception can carry, as lists of words
Messages ==
    { <<"RATELIMIT", "try", "again", "later">>,
      <<"SUBREDDIT_NOEXIST">>,
      <<"ratelimit">> }

\* the exceptions func can raise: a RedditAPIException or any other Exception
Errors == [cls : {"RedditAPIException", "Exception"}, msg : Messages]
NoError == [cls |-> "none", msg |-> <<>>]

\* "RATELIMIT" in str(e)
Mentions(m) == \E k \in 1 .. Len(m) : m[k] = "RATELIMIT"

\* the exception takes the branch that waits and retries
IsRateLimit(e) == e.cls = "RedditAPIException" /\ Mentions(e.msg)

\* wait_time = retry_delay * (attempt + 1)
WaitTimeFlat(attempt) == RateLimitDelay
WaitTime(attempt) == RateLimitDelay * (attempt + 1)

\* the wrapper is called: "for attempt in range(max_retries)" starts
WrapperCalled ==
    /\ rl_pc = "idle"
    /\ rl_runs < MaxRuns
    /\ rl_runs' = rl_runs + 1
    /\ rl_pc' = "try"
    /\ rl_attempt' = 0
    /\ rl_calls' = 0
    /\ rl_waits' = <<>>
    /\ rl_kind' = "pending" /\ rl_value' = 0 /\ rl_error' = NoError
    /\ UNCHANGED rl_clock
    /\ UNCHANGED nonlimit

\* "return func(*args, **kwargs)": the call returns a value
InvokeReturns ==
    /\ rl_pc = "try"
    /\ rl_calls' = rl_calls + 1
    /\ \E v \in 1 .. MaxVal : rl_value' = v
    /\ rl_kind' = "value"
    /\ rl_pc' = "done"
    /\ UNCHANGED <<rl_attempt, rl_waits, rl_error, rl_clock, rl_runs>>
    /\ UNCHANGED nonlimit

\* the call raises: a rate-limit error is waited out, any other is re-raised
InvokeRaises ==
    /\ rl_pc = "try"
    /\ rl_calls' = rl_calls + 1
    /\ \E e \in Errors :
         IF IsRateLimit(e)
         THEN /\ rl_waits' = Append(rl_waits, WaitTime(rl_attempt))
              /\ rl_clock' = rl_clock + WaitTime(rl_attempt)
              /\ rl_pc' = "wait"
              /\ UNCHANGED <<rl_kind, rl_error>>
         ELSE /\ rl_kind' = "raised"
              /\ rl_error' = e
              /\ rl_pc' = "done"
              /\ UNCHANGED <<rl_waits, rl_clock>>
    /\ UNCHANGED <<rl_attempt, rl_value, rl_runs>>
    /\ UNCHANGED nonlimit

\* time.sleep(wait_time) is over: the next attempt, or "return None" after
\* the last one
WaitEnds ==
    /\ rl_pc = "wait"
    /\ rl_attempt' = rl_attempt + 1
    /\ IF rl_attempt + 1 < RateLimitMaxRetries
       THEN rl_pc' = "try" /\ rl_kind' = rl_kind
       ELSE rl_pc' = "done" /\ rl_kind' = "none"
    /\ UNCHANGED <<rl_calls, rl_waits, rl_value, rl_error, rl_clock, rl_runs>>
    /\ UNCHANGED nonlimit

\* the caller has the outcome; the wrapper can be called again
WrapperLeft ==
    /\ rl_pc = "done"
    /\ rl_pc' = "idle"
    /\ UNCHANGED <<rl_attempt, rl_calls, rl_waits, rl_kind, rl_value, rl_error,
                   rl_clock, rl_runs>>
    /\ UNCHANGED nonlimit

LimitInit ==
    /\ rl_pc = "idle"
    /\ rl_attempt = 0
    /\ rl_calls = 0
    /\ rl_waits = <<>>
    /\ rl_kind = "pending" /\ rl_value = 0 /\ rl_error = NoError
    /\ rl_clock = 0
    /\ rl_runs = 0

LimitNext ==
    \/ WrapperCalled \/ InvokeReturns \/ InvokeRaises \/ WaitEnds \/ WrapperLeft

----------------------------------------------------------------------------
(* PersonalityManager: the registry and the thread affinity map *)

PersonalityNames == {"crypto_researcher", "defi_skeptic", "infinity_gainz"}
PlatformNames == {"reddit", "twitter"}
ThreadIds == {"t1", "t2"}

\* a personality file has no 'platform_settings', or settings for some platforms
NoSettings == [settings |-> FALSE, platforms |-> {}]

\* Python's None where a personality is expected
NoPersonality == "nobody"
Settings ==
    {NoSettings} \cup { [settings |-> TRUE, platforms |-> P] : P \in SUBSET PlatformNames }

\* what load_personalities can find in the directory, keyed by name
Registries == UNION { [S -> Settings] : S \in SUBSET PersonalityNames }

\* 'platform_settings' in p and platform in p['platform_settings']
Supports(name, platform) ==
    /\ personalities[name].settings
    /\ platform \in personalities[name].platforms

\* get_random_personality: valid_personalities
ValidPersonalities(platform) ==
    { n \in DOMAIN personalities : Supports(n, platform) }

\* get_contrasting_personality: valid_personalities
ValidContrastingAny(current, platform) ==
    { n \in DOMAIN personalities : Supports(n, platform) }
ValidContrasting(current, platform) ==
    { n \in DOMAIN personalities : n # current /\ Supports(n, platform) }

\* get_personality_for_thread, lines 87-91: the owner of the thread, if it
\* is to answer
OwnerNone(thread_id, platform) == NoPersonality
Owner(thread_id, platform) ==
    IF /\ conversation_threads[thread_id] # NoPersonality
       /\ Supports(conversation_threads[thread_id], platform)
    THEN conversation_threads[thread_id]
    ELSE NoPersonality

NoCall == [op |-> "none", arg |-> "none", platform |-> "none"]

\* a call of the manager ends: what was called, what came back
Returned(op, arg, platform, outcome, ret) ==
    /\ pm_calls < MaxCalls
    /\ pm_calls' = pm_calls + 1
    /\ pm_op' = [op |-> op, arg |-> arg, platform |-> platform]
    /\ pm_outcome' = outcome
    /\ pm_ret' = ret
    /\ pm_prev' = conversation_threads

\* __init__: load_personalities, then an empty conversation_threads
LoadPersonalities ==
    /\ ~pm_loaded
    /\ pm_loaded' = TRUE
    /\ \E reg \in Registries : personalities' = reg
    /\ conversation_threads' = [t \in ThreadIds |-> NoPersonality]
    /\ UNCHANGED <<pm_op, pm_outcome, pm_ret, pm_prev, pm_calls>>
    /\ UNCHANGED nonmanager

\* get_random_personality(platform)
GetRandomPersonality ==
    /\ pm_loaded
    /\ \E platform \in PlatformNames :
         IF ValidPersonalities(platform) # {}
         THEN \E n \in ValidPersonalities(platform) :
                Returned("random", "none", platform, "returned", n)
         ELSE Returned("random", "none", platform, "returned", NoPersonality)
    /\ UNCHANGED <<personalities, conversation_threads, pm_loaded>>
    /\ UNCHANGED nonmanager

\* get_contrasting_personality(current_personality, platform), called with the
\* name of a personality of the registry
GetContrastingPersonality ==
    /\ pm_loaded
    /\ \E current \in DOMAIN personalities, platform \in PlatformNames :
         IF ValidContrasting(current, platform) # {}
         THEN \E n \in ValidContrasting(current, platform) :
                Returned("contrasting", current, platform, "returned", n)
         ELSE IF current \in DOMAIN personalities
              THEN Returned("contrasting", current, platform, "returned", current)
              ELSE Returned("contrasting", current, platform, "KeyError", NoPersonality)
    /\ UNCHANGED <<personalities, conversation_threads, pm_loaded>>
    /\ UNCHANGED nonmanager

\* get_personality_for_thread(thread_id, platform)
GetPersonalityForThread ==
    /\ pm_loaded
    /\ \E thread_id \in ThreadIds, platform \in PlatformNames :
         IF Owner(thread_id, platform) # NoPersonality
         THEN /\ Returned("thread", thread_id, platform, "returned",
                          Owner(thread_id, platform))
              /\ UNCHANGED conversation_threads
         ELSE IF ValidPersonalities(platform) # {}
              THEN \E n \in ValidPersonalities(platform) :
                     /\ Returned("thread", thread_id, platform, "returned", n)
                     /\ conversation_threads' =
                          [conversation_threads EXCEPT ![thread_id] = n]
              ELSE /\ Returned("thread", thread_id, platform, "returned", NoPersonality)
                   /\ UNCHANGED conversation_threads
    /\ UNCHANGED <<personalities, pm_loaded>>
    /\ UNCHANGED nonmanager

ManagerInit ==
    /\ pm_loaded = FALSE
    /\ personalities = <<>>
    /\ conversation_threads = [t \in ThreadIds |-> NoPersonality]
    /\ pm_op = NoCall
    /\ pm_outcome = "none"
    /\ pm_ret = NoPersonality
    /\ pm_prev = [t \in ThreadIds |-> NoPersonality]
    /\ pm_calls = 0

ManagerNext ==
    \/ LoadPersonalities \/ GetRandomPersonality
    \/ GetContrastingPersonality \/ GetPersonalityForThread

----------------------------------------------------------------------------
(* init_database, the platform_stats table and ElizaHandler *)

\* the platforms the system runs, and every name written to platform_stats
RunPlatforms == {"reddit", "twitter", "eliza"}
StatPlatforms == {"reddit", "twitter", "eliza", "discord", "telegram"}

\* init_database: platforms = ['reddit', 'twitter', 'discord', 'telegram']
InitPlatforms == {"reddit", "twitter", "discord", "telegram"}

\* test_integration.py setUp: platforms = ['reddit', 'eliza']
TestPlatforms == {"reddit", "eliza"}

NoRow == [rows |-> 0, total_interactions |-> 0]
NoRows == [p \in StatPlatforms |-> NoRow]

\* SELECT COUNT(*) FROM platform_stats
CountRows(ps) == Cardinality({p \in StatPlatforms : ps[p].rows > 0})

\* INSERT OR IGNORE INTO platform_stats ... VALUES (?, 0, ...) for each name:
\* platform is UNIQUE, so a name that has a row keeps it
InsertOrIgnore(ps, names) ==
    [p \in StatPlatforms |->
        IF p \in names /\ ps[p].rows = 0
        THEN [rows |-> 1, total_interactions |-> 0]
        ELSE ps[p]]

\* UPDATE platform_stats SET total_interactions = total_interactions + 1
\* WHERE platform = ?: every row of that name, none if there is none
UpdateInteractions(ps, name) ==
    [ps EXCEPT ![name] =
        IF @.rows > 0 THEN [@ EXCEPT !.total_interactions = @ + 1] ELSE @]

\* the session ids of the model, and a row of eliza_sessions: there is none,
\* or it has is_active = 1 or 0, and last_activity
SessionIds == 1 .. MaxSessions
NoSession == [state |-> "absent", last_activity |-> 0]
NoSessions == [s \in SessionIds |-> NoSession]

NoOp == [op |-> "none", sid |-> 0, arg |-> 0]

\* process_message: "if not result or not result[1]" is false: the row is
\* there and is_active is set
ValidIfExists(sessions, sid) == sessions[sid].state # "absent"
Valid(sessions, sid) == sessions[sid].state = "active"

\* cleanup_inactive_sessions: "if timeout_seconds is None"
EffectiveTimeout(arg) == IF arg = None THEN SessionTimeout ELSE arg

\* cleanup_inactive_sessions: the rows its UPDATE matches, is_active = 1 AND
\* datetime(last_activity) <= datetime(now)
Matched(sessions, t) ==
    { s \in SessionIds : sessions[s].state = "active" /\ sessions[s].last_activity <= t }

\* time the clock can advance by between two calls
ElapseSteps == {1, SessionTimeout - 1}

\* init_database(db_path, force_recreate): main.py passes force_recreate=True
InitDatabase ==
    /\ \E force_recreate \in BOOLEAN :
         IF force_recreate
         THEN /\ tables' = {"platform_stats"}
              /\ platform_stats' = InsertOrIgnore(NoRows, InitPlatforms)
              /\ eliza_sessions' = NoSessions
              /\ eliza_messages' = 0
         ELSE /\ tables' = tables \cup {"platform_stats"}
              /\ platform_stats' =
                   IF CountRows(platform_stats) = 0
                   THEN InsertOrIgnore(platform_stats, InitPlatforms)
                   ELSE platform_stats
              /\ UNCHANGED <<eliza_sessions, eliza_messages>>
    /\ db_initialized' = TRUE
    /\ ez_op' = [op |-> "init_database", sid |-> 0, arg |-> 0]
    /\ UNCHANGED <<ez_outcome, ez_ret, ez_clock, ez_elapses>>
    /\ UNCHANGED nonstats

\* TestMultiPlatformIntegration.setUp: CREATE TABLE IF NOT EXISTS for the
\* Eliza tables and platform_stats, then the rows of the test platforms
SetUp ==
    /\ tables' = tables \cup {"platform_stats", "eliza_sessions"}
    /\ platform_stats' = InsertOrIgnore(platform_stats, TestPlatforms)
    /\ ez_op' = [op |-> "setUp", sid |-> 0, arg |-> 0]
    /\ UNCHANGED <<eliza_sessions, eliza_messages, db_initialized, ez_outcome,
                   ez_ret, ez_clock, ez_elapses>>
    /\ UNCHANGED nonstats

\* ElizaHandler.create_session: a row under a new uuid, and the first message
CreateSession ==
    /\ IF "eliza_sessions" \in tables
       THEN \E sid \in SessionIds :
              /\ eliza_sessions[sid].state = "absent"
              /\ eliza_sessions' =
                   [eliza_sessions EXCEPT
                      ![sid] = [state |-> "active", last_activity |-> ez_clock]]
              /\ eliza_messages' = Min(MaxMessages, eliza_messages + 1)
              /\ ez_outcome' = "session"
              /\ ez_op' = [op |-> "create_session", sid |-> sid, arg |-> 0]
       ELSE /\ ez_outcome' = "OperationalError"
            /\ ez_op' = [op |-> "create_session", sid |-> 0, arg |-> 0]
            /\ UNCHANGED <<eliza_sessions, eliza_messages>>
    /\ UNCHANGED <<tables, platform_stats, db_initialized, ez_ret, ez_clock, ez_elapses>>
    /\ UNCHANGED nonstats

\* ElizaHandler.process_message(session_id, message)
ProcessMessage ==
    /\ \E sid \in SessionIds :
         /\ ez_op' = [op |-> "process_message", sid |-> sid, arg |-> 0]
         /\ IF "eliza_sessions" \notin tables
            THEN /\ ez_outcome' = "OperationalError"
                 /\ UNCHANGED <<platform_stats, eliza_messages, eliza_sessions>>
            ELSE IF ~Valid(eliza_sessions, sid)
            THEN /\ ez_outcome' = "invalid"
                 /\ UNCHANGED <<platform_stats, eliza_messages, eliza_sessions>>
            ELSE IF "platform_stats" \notin tables
            THEN /\ ez_outcome' = "OperationalError"
                 /\ UNCHANGED <<platform_stats, eliza_messages, eliza_sessions>>
            ELSE /\ eliza_messages < MaxMessages
                 /\ eliza_messages' = Min(MaxMessages, eliza_messages + 2)
                 /\ eliza_sessions' =
                      [eliza_sessions EXCEPT ![sid].last_activity = ez_clock]
                 /\ platform_stats' = UpdateInteractions(platform_stats, "eliza")
                 /\ ez_outcome' = "ok"
    /\ UNCHANGED <<tables, db_initialized, ez_ret, ez_clock, ez_elapses>>
    /\ UNCHANGED nonstats

\* ElizaHandler.end_session(session_id): UPDATE ... WHERE session_id = ?
EndSession ==
    /\ "eliza_sessions" \in tables
    /\ \E sid \in SessionIds :
         /\ ez_op' = [op |-> "end_session", sid |-> sid, arg |-> 0]
         /\ eliza_sessions' =
              IF eliza_sessions[sid].state = "absent"
              THEN eliza_sessions
              ELSE [eliza_sessions EXCEPT
                      ![sid] = [state |-> "ended", last_activity |-> ez_clock]]
    /\ ez_outcome' = "ended"
    /\ UNCHANGED <<tables, platform_stats, eliza_messages, db_initialized,
                   ez_ret, ez_clock, ez_elapses>>
    /\ UNCHANGED nonstats

\* ElizaHandler.cleanup_inactive_sessions(timeout_seconds): the cycle of the
\* eliza worker calls it without an argument
CleanupInactiveSessions ==
    /\ "eliza_sessions" \in tables
    /\ \E arg \in {None, 0, 1} :
         /\ ez_op' = [op |-> "cleanup", sid |-> 0, arg |-> EffectiveTimeout(arg)]
         /\ eliza_sessions' =
              [s \in SessionIds |->
                 IF s \in Matched(eliza_sessions, ez_clock)
                 THEN [eliza_sessions[s] EXCEPT !.state = "ended"]
                 ELSE eliza_sessions[s]]
         /\ ez_ret' = Cardinality(Matched(eliza_sessions, ez_clock))
    /\ ez_outcome' = "cleaned"
    /\ UNCHANGED <<tables, platform_stats, eliza_messages, db_initialized,
                   ez_clock, ez_elapses>>
    /\ UNCHANGED nonstats

\* time passes between two calls
Elapse ==
    /\ ez_elapses < MaxElapses
    /\ ez_elapses' = ez_elapses + 1
    /\ \E d \in ElapseSteps : ez_clock' = ez_clock + d
    /\ ez_op' = [op |-> "elapse", sid |-> 0, arg |-> 0]
    /\ UNCHANGED <<tables, platform_stats, eliza_sessions, eliza_messages,
                   db_initialized, ez_outcome, ez_ret>>
    /\ UNCHANGED nonstats

StatsInit ==
    /\ tables = {}
    /\ platform_stats = NoRows
    /\ eliza_sessions = NoSessions
    /\ eliza_messages = 0
    /\ db_initialized = FALSE
    /\ ez_outcome = "none"
    /\ ez_op = NoOp
    /\ ez_ret = 0
    /\ ez_clock = 0
    /\ ez_elapses = 0

StatsNext ==
    \/ InitDatabase \/ SetUp \/ CreateSession \/ ProcessMessage \/ EndSession
    \/ CleanupInactiveSessions \/ Elapse

----------------------------------------------------------------------------
(* The posts table: its UNIQUE constraints and the lookup of the handler *)

\* ids the platforms give to their posts
ExternalIds == {"p1", "p2", "p3"}

NoPost == <<"none", "none">>

\* "post_id TEXT UNIQUE": a row with this post_id is stored, on any platform
HasPostId(rows, id) == \E r \in rows : r[2] = id

\* "UNIQUE(platform, post_id)": a row with this platform and post_id is stored
HasRow(rows, platform, id) == <<platform, id>> \in rows

\* an INSERT INTO posts raises sqlite3.IntegrityError when a constraint of the
\* table is violated
Rejects(rows, platform, id) ==
    HasPostId(rows, id) \/ HasRow(rows, platform, id)

\* INSERT INTO posts (platform, post_id, ...) VALUES (?, ?, ...)
StorePost ==
    /\ \E platform \in PlatformNames, id \in ExternalIds :
         /\ pt_op' = <<platform, id>>
         /\ IF Rejects(posts_table, platform, id)
            THEN /\ pt_outcome' = "IntegrityError"
                 /\ UNCHANGED posts_table
            ELSE /\ pt_outcome' = "inserted"
                 /\ posts_table' = posts_table \cup {<<platform, id>>}
    /\ UNCHANGED nontable

\* process_subreddits, for an item of the subreddit's listing:
\* SELECT id FROM posts WHERE post_id = ?, "if not cursor.fetchone()"
LookUp ==
    /\ \E id \in ExternalIds :
         /\ pt_op' = <<"reddit", id>>
         /\ pt_outcome' = IF HasPostId(posts_table, id) THEN "seen" ELSE "new"
    /\ UNCHANGED posts_table
    /\ UNCHANGED nontable

TableInit ==
    /\ posts_table = {}
    /\ pt_op = NoPost
    /\ pt_outcome = "none"

TableNext == StorePost \/ LookUp

----------------------------------------------------------------------------
(* TwitterHandler: _check_rate_limit at the head of post_tweet and reply_to_tweet *)

NoHandlerCall == [op |-> "none", ok |-> FALSE]

\* post_tweet: what a call that came to its end assigns to self.last_tweet_time
\* (no statement of the handler assigns it after __init__)
TweetTimeAfterPost(old, t) == old

\* reply_to_tweet: "self.last_reply_time = datetime.now()" after a reply
ReplyTimeAfterReply(old, t) == t

\* a call of the handler ends
HandlerCallEnds(op, ok) ==
    /\ h_calls < MaxHandlerCalls
    /\ h_calls' = h_calls + 1
    /\ h_op' = [op |-> op, ok |-> ok]

\* post_tweet(content, personality), called at any time by any caller
GatePostTweet ==
    /\ IF ~check_rate_limit(cfg, h_last_tweet_time, h_clock)
       THEN /\ HandlerCallEnds("post_tweet", FALSE)
            /\ UNCHANGED <<h_last_tweet_time, h_external, h_ok_tweet>>
       ELSE \E ok \in BOOLEAN :
              /\ HandlerCallEnds("post_tweet", ok)
              /\ h_external' = h_external + 1
              /\ h_last_tweet_time' =
                   IF ok THEN TweetTimeAfterPost(h_last_tweet_time, h_clock)
                   ELSE h_last_tweet_time
              /\ h_ok_tweet' = IF ok THEN h_clock ELSE h_ok_tweet
    /\ UNCHANGED <<h_last_reply_time, h_ok_reply, h_clock, h_elapses>>
    /\ UNCHANGED nongate

\* reply_to_tweet(tweet_id, content, personality)
GateReplyToTweet ==
    /\ IF ~check_rate_limit(cfg, h_last_reply_time, h_clock)
       THEN /\ HandlerCallEnds("reply_to_tweet", FALSE)
            /\ UNCHANGED <<h_last_reply_time, h_external, h_ok_reply>>
       ELSE \E ok \in BOOLEAN :
              /\ HandlerCallEnds("reply_to_tweet", ok)
              /\ h_external' = h_external + 1
              /\ h_last_reply_time' =
                   IF ok THEN ReplyTimeAfterReply(h_last_reply_time, h_clock)
                   ELSE h_last_reply_time
              /\ h_ok_reply' = IF ok THEN h_clock ELSE h_ok_reply
    /\ UNCHANGED <<h_last_tweet_time, h_ok_tweet, h_clock, h_elapses>>
    /\ UNCHANGED nongate

\* time passes between two calls: a second, or all but a second of
\* min_delay_between_actions
GateElapse ==
    /\ h_elapses < MaxElapses
    /\ h_elapses' = h_elapses + 1
    /\ \E d \in {1, cfg.md - 1} : h_clock' = h_clock + d
    /\ UNCHANGED <<h_last_tweet_time, h_last_reply_time, h_calls, h_op, h_external,
                   h_ok_tweet, h_ok_reply>>
    /\ UNCHANGED nongate

GateInit ==
    /\ h_last_tweet_time = None
    /\ h_last_reply_time = None
    /\ h_clock = 0
    /\ h_elapses = 0
    /\ h_calls = 0
    /\ h_op = NoHandlerCall
    /\ h_external = 0
    /\ h_ok_tweet = None
    /\ h_ok_reply = None

GateNext == GatePostTweet \/ GateReplyToTweet \/ GateElapse

----------------------------------------------------------------------------
(* Tweet: construction and the personality signature, on string lengths *)

MAX_TWEET_LENGTH == 280

ContentLens == {0, 1, 100, 276, 277, 278, 280, 281, 400}
NameLens    == {4, 20, 120}
BioLens     == {1, 50, 151, 152, 160, 300}

\* a personality dictionary: whether it has both keys, and the lengths of
\* personality['name'] and personality['bio'][0]
TweetPersonalities ==
    [keys : BOOLEAN, name : NameLens, bio : BioLens]

\* len(s[:k]) for len(s) = n: a negative k counts from the end
SliceLen(n, k) ==
    IF k >= 0 THEN Min(n, k) ELSE Max(0, n + k)

\* len(f"\n\n- {name}, {bio[0]}")
SignatureLen(p) == 4 + p.name + 2 + p.bio

\* content after __post_init__, for non-empty content
PostInitLen(n) ==
    IF n > MAX_TWEET_LENGTH THEN SliceLen(n, MAX_TWEET_LENGTH - 3) + 3 ELSE n

\* content after add_personality_signature
SignedLen(n, p) ==
    IF p.keys
    THEN LET signature == SignatureLen(p)
             remaining_length == MAX_TWEET_LENGTH - signature
             kept == IF n > remaining_length
                     THEN SliceLen(n, remaining_length - 3) + 3
                     ELSE n
         IN  kept + signature
    ELSE n

\* Tweet(content=content)
PostInit ==
    /\ tw_pc = "none"
    /\ \E n \in ContentLens :
         /\ tw_given' = n
         /\ IF n = 0
            THEN tw_pc' = "ValueError" /\ tw_content' = tw_content
            ELSE tw_pc' = "built" /\ tw_content' = PostInitLen(n)
    /\ UNCHANGED tw_signature
    /\ UNCHANGED nontweet

\* tweet.add_personality_signature(personality)
AddPersonalitySignature ==
    /\ tw_pc = "built"
    /\ \E p \in TweetPersonalities :
         /\ tw_content' = SignedLen(tw_content, p)
         /\ tw_signature' = IF p.keys THEN SignatureLen(p) ELSE 0
    /\ tw_pc' = "signed"
    /\ UNCHANGED tw_given
    /\ UNCHANGED nontweet

TweetInit ==
    /\ tw_pc = "none"
    /\ tw_given = 0
    /\ tw_content = 0
    /\ tw_signature = 0

TweetNext == PostInit \/ AddPersonalitySignature

----------------------------------------------------------------------------
(* ContinuousTwitterBot.run: one action per step of the loop *)

\* observer update made whenever a tweet is recorded at time t
Marked(t) ==
    IF mark_time = None
    THEN \/ mark_time' = t /\ mark_count' = 1
         \/ mark_time' = None /\ mark_count' = 0
    ELSE /\ mark_time' = mark_time
         /\ mark_count' = Min(mark_count + 1, cfg.tph + 1)

\* an injected failure or signal, counted against the budget of the run
Fault == faults < fault_cap /\ faults' = faults + 1

\* a failing post_tweet call is one failure, however many attempts fail in it
PostFault == IF retry_count = 0 /\ submitted = 0 THEN Fault ELSE faults' = faults

\* the draw and the result of the eligibility check go out of scope
ClearDraw == base_delay' = 0 /\ jitter2' = 0 /\ delay2' = 0 /\ eligible' = FALSE

\* "if not self.twitter_handler: self.initialize_twitter_handler()" succeeds
InitHandlerOk ==
    /\ pc = "top" /\ bot_running /\ ~twitter_handler
    /\ twitter_handler' = TRUE
    /\ last_reply_time' = None
    /\ UNCHANGED <<cfg, now, pc, last_tweet_time, status_file, base_delay, jitter2,
                   delay2, eligible, retries, success, tweet_id, retry_count, reply_id,
                   submitted, posted_last, prev_tweet_time, mark_time, mark_count,
                   horizon, faults, fault_cap>>
    /\ UNCHANGED sigvars
    /\ UNCHANGED nonbot

\* initialize_twitter_handler() returns False: "time.sleep(retry_delay); continue"
InitHandlerFail ==
    /\ pc = "top" /\ bot_running /\ ~twitter_handler
    /\ Fault
    /\ now < horizon
    /\ now' = now + BotRetryDelay
    /\ UNCHANGED <<cfg, pc, twitter_handler, last_tweet_time, status_file, base_delay,
                   jitter2, delay2, eligible, retries, success, tweet_id, retry_count,
                   last_reply_time, reply_id, submitted, posted_last, prev_tweet_time,
                   mark_time, mark_count, horizon, fault_cap>>
    /\ UNCHANGED sigvars
    /\ UNCHANGED nonbot

\* "if self.should_post_tweet():" with a fresh draw of get_next_tweet_delay
ShouldPostTweet ==
    /\ pc = "top" /\ bot_running /\ twitter_handler
    /\ \E base \in SampleBase(cfg), j2 \in SampleJitter2(cfg) :
         /\ base_delay' = base
         /\ jitter2' = j2
         /\ delay2' = get_next_tweet_delay2(cfg, base, j2)
         /\ eligible' = should_post_tweet(cfg, last_tweet_time, now,
                                          get_next_tweet_delay2(cfg, base, j2))
    /\ pc' = "checked"
    /\ UNCHANGED <<cfg, now, twitter_handler, last_tweet_time, status_file, retries,
                   success, tweet_id, retry_count, last_reply_time, reply_id,
                   submitted, posted_last, prev_tweet_time, mark_time, mark_count,
                   horizon, faults, fault_cap>>
    /\ UNCHANGED sigvars
    /\ UNCHANGED nonbot

\* the branch on the result: enter the retry loop, or fall to the sleep
Dispatch ==
    /\ pc = "checked"
    /\ IF eligible
       THEN /\ retries' = 0 /\ success' = FALSE /\ pc' = "attempt"
       ELSE /\ pc' = "sleep" /\ UNCHANGED <<retries, success>>
    /\ ClearDraw
    /\ UNCHANGED <<cfg, now, twitter_handler, last_tweet_time, status_file, tweet_id,
                   retry_count, last_reply_time, reply_id, submitted, posted_last,
                   prev_tweet_time, mark_time, mark_count, horizon, faults, fault_cap>>
    /\ UNCHANGED sigvars
    /\ UNCHANGED nonbot

\* "while retries < max_retries and not success and self.running" is left;
\* the locals of the loop go out of scope
LoopExit ==
    /\ pc = "attempt"
    /\ ~(retries < BotMaxRetries /\ ~success /\ bot_running)
    /\ retries' = 0 /\ success' = FALSE
    /\ tweet_id' = None /\ reply_id' = None
    /\ submitted' = 0
    /\ pc' = "sleep"
    /\ UNCHANGED <<cfg, now, twitter_handler, last_tweet_time, status_file, base_delay,
                   jitter2, delay2, eligible, retry_count, last_reply_time,
                   posted_last, prev_tweet_time, mark_time, mark_count, horizon,
                   faults, fault_cap>>
    /\ UNCHANGED sigvars
    /\ UNCHANGED nonbot

\* what follows a failed attempt: "retries += 1; if retries < max_retries:
\* time.sleep(self.min_delay)", and in the except branch "else: self.twitter_handler = None"
AfterFailure(raised) ==
    /\ now < horizon
    /\ retries' = retries + 1
    /\ now' = IF retries + 1 < BotMaxRetries THEN now + cfg.md ELSE now
    /\ twitter_handler' = IF raised /\ ~(retries + 1 < BotMaxRetries)
                          THEN FALSE ELSE twitter_handler
    /\ pc' = "attempt"

\* generate_tweet_content returned None: nothing is posted
GenerateNoContent ==
    /\ pc = "attempt" /\ retries < BotMaxRetries /\ ~success /\ bot_running
    /\ Fault
    /\ AfterFailure(FALSE)
    /\ UNCHANGED <<cfg, last_tweet_time, status_file, base_delay, jitter2, delay2,
                   eligible, success, tweet_id, retry_count, last_reply_time, reply_id,
                   submitted, posted_last, prev_tweet_time, mark_time, mark_count,
                   horizon, fault_cap>>
    /\ UNCHANGED sigvars
    /\ UNCHANGED nonbot

\* an exception inside the try block of the retry loop
AttemptRaises ==
    /\ pc = "attempt" /\ retries < BotMaxRetries /\ ~success /\ bot_running
    /\ Fault
    /\ AfterFailure(TRUE)
    /\ UNCHANGED <<cfg, last_tweet_time, status_file, base_delay, jitter2, delay2,
                   eligible, success, tweet_id, retry_count, last_reply_time, reply_id,
                   submitted, posted_last, prev_tweet_time, mark_time, mark_count,
                   horizon, fault_cap>>
    /\ UNCHANGED sigvars
    /\ UNCHANGED nonbot

\* content was generated and post_tweet is entered; its rate check reads the
\* handler's own last_tweet_time, which is None from construction on
EnterPostTweet ==
    /\ pc = "attempt" /\ retries < BotMaxRetries /\ ~success /\ bot_running
    /\ retry_count' = 0
    /\ submitted' = 0
    /\ tweet_id' = None
    /\ pc' = "post_tweet"
    /\ UNCHANGED <<cfg, now, twitter_handler, last_tweet_time, status_file, base_delay,
                   jitter2, delay2, eligible, retries, success, last_reply_time,
                   reply_id, posted_last, prev_tweet_time, mark_time, mark_count,
                   horizon, faults, fault_cap>>
    /\ UNCHANGED sigvars
    /\ UNCHANGED nonbot

----------------------------------------------------------------------------
(* TwitterHandler.post_tweet: the retry loop "while retry_count < max_retries" *)

\* an attempt that fails before the post button is clicked (home or compose
\* page not loaded, no input, no button, click failed, exception)
PostAttemptFails ==
    /\ pc = "post_tweet" /\ retry_count < PostMaxRetries
    /\ PostFault
    /\ now < horizon
    /\ retry_count' = retry_count + 1
    /\ now' = now + AttemptMinDur
    /\ UNCHANGED <<cfg, pc, twitter_handler, last_tweet_time, status_file, base_delay,
                   jitter2, delay2, eligible, retries, success, tweet_id,
                   last_reply_time, reply_id, submitted, posted_last, prev_tweet_time,
                   mark_time, mark_count, horizon, fault_cap>>
    /\ UNCHANGED sigvars
    /\ UNCHANGED nonbot

\* "return None": login page or security challenge detected
PostAborted ==
    /\ pc = "post_tweet" /\ retry_count < PostMaxRetries
    /\ PostFault
    /\ now < horizon
    /\ tweet_id' = None
    /\ retry_count' = 0
    /\ now' = now + AttemptMinDur
    /\ pc' = "posted"
    /\ UNCHANGED <<cfg, twitter_handler, last_tweet_time, status_file, base_delay,
                   jitter2, delay2, eligible, retries, success, last_reply_time,
                   reply_id, submitted, posted_last, prev_tweet_time, mark_time,
                   mark_count, horizon, fault_cap>>
    /\ UNCHANGED sigvars
    /\ UNCHANGED nonbot

\* the post button was clicked and _extract_tweet_id found the id: "return tweet_id"
PostSubmitted ==
    /\ pc = "post_tweet" /\ retry_count < PostMaxRetries
    /\ now < horizon
    /\ now' = now + PostMinDur
    /\ posted_last' = now + PostMinDur
    /\ submitted' = submitted + 1
    /\ tweet_id' = 1
    /\ retry_count' = 0
    /\ pc' = "posted"
    /\ UNCHANGED <<cfg, twitter_handler, last_tweet_time, status_file, base_delay,
                   jitter2, delay2, eligible, retries, success, last_reply_time,
                   reply_id, prev_tweet_time, mark_time, mark_count, horizon, faults,
                   fault_cap>>
    /\ UNCHANGED sigvars
    /\ UNCHANGED nonbot

\* the post button was clicked but _extract_tweet_id returned None:
\* "retry_count += 1; continue" goes on to post the same content again
PostSubmittedNoId ==
    /\ pc = "post_tweet" /\ retry_count < PostMaxRetries
    /\ PostFault
    /\ now < horizon
    /\ now' = now + PostMinDur
    /\ submitted' = submitted + 1
    /\ retry_count' = retry_count + 1
    /\ UNCHANGED <<cfg, pc, twitter_handler, last_tweet_time, status_file, base_delay,
                   jitter2, delay2, eligible, retries, success, tweet_id,
                   last_reply_time, reply_id, posted_last, prev_tweet_time, mark_time,
                   mark_count, horizon, fault_cap>>
    /\ UNCHANGED sigvars
    /\ UNCHANGED nonbot

\* the loop is exhausted: "return None"
PostExhausted ==
    /\ pc = "post_tweet" /\ ~(retry_count < PostMaxRetries)
    /\ tweet_id' = None
    /\ retry_count' = 0
    /\ pc' = "posted"
    /\ UNCHANGED <<cfg, now, twitter_handler, last_tweet_time, status_file, base_delay,
                   jitter2, delay2, eligible, retries, success, last_reply_time,
                   reply_id, submitted, posted_last, prev_tweet_time, mark_time,
                   mark_count, horizon, faults, fault_cap>>
    /\ UNCHANGED sigvars
    /\ UNCHANGED nonbot

----------------------------------------------------------------------------
(* ContinuousTwitterBot.run: after post_tweet returned *)

\* "if tweet_id: self.last_tweet_time = datetime.now()"
RecordTweet ==
    /\ pc = "posted" /\ tweet_id # None
    /\ last_tweet_time' = RecordTime(tweet_id, last_tweet_time, now)
    /\ prev_tweet_time' = last_tweet_time
    /\ Marked(now)
    /\ pc' = "save"
    /\ UNCHANGED <<cfg, now, twitter_handler, status_file, base_delay, jitter2, delay2,
                   eligible, retries, success, tweet_id, retry_count, last_reply_time,
                   reply_id, submitted, posted_last, horizon, faults, fault_cap>>
    /\ loaded' = None
    /\ UNCHANGED <<bot_running, status_running>>
    /\ UNCHANGED nonbot

\* post_tweet returned None: "if not success: retries += 1 ..."
PostFailed ==
    /\ pc = "posted" /\ tweet_id = None
    /\ last_tweet_time' = RecordTime(tweet_id, last_tweet_time, now)
    /\ AfterFailure(FALSE)
    /\ UNCHANGED <<cfg, status_file, base_delay, jitter2, delay2, eligible, success,
                   tweet_id, retry_count, last_reply_time, reply_id, submitted,
                   posted_last, prev_tweet_time, mark_time, mark_count, horizon,
                   faults, fault_cap>>
    /\ UNCHANGED sigvars
    /\ UNCHANGED nonbot

\* 'is_running': self.running, as save_status writes it
IsRunningField(r) == IF r THEN "true" ELSE "false"

\* load_status: the last_tweet_time of the status file, None without one
LoadStatusNone(f) == None
LoadStatus(f) == f

\* "success = True; time.sleep(random.uniform(self.min_delay, self.min_delay * 2))"
AfterSave ==
    /\ success' = TRUE
    /\ now < horizon
    /\ \E s \in {cfg.md, 2 * cfg.md} : now' = now + s
    /\ pc' = "followup"

\* "self.save_status()" writes the checkpoint
SaveStatus ==
    /\ pc = "save"
    /\ status_file' = last_tweet_time
    /\ status_running' = IsRunningField(bot_running)
    /\ AfterSave
    /\ UNCHANGED <<cfg, twitter_handler, last_tweet_time, base_delay, jitter2, delay2,
                   eligible, retries, tweet_id, retry_count, last_reply_time, reply_id,
                   submitted, posted_last, prev_tweet_time, mark_time, mark_count,
                   horizon, faults, fault_cap>>
    /\ UNCHANGED <<bot_running, loaded>>
    /\ UNCHANGED nonbot

\* save_status fails to write and swallows the error
SaveStatusFails ==
    /\ pc = "save"
    /\ Fault
    /\ AfterSave
    /\ UNCHANGED <<cfg, twitter_handler, last_tweet_time, status_file, base_delay,
                   jitter2, delay2, eligible, retries, tweet_id, retry_count,
                   last_reply_time, reply_id, submitted, posted_last, prev_tweet_time,
                   mark_time, mark_count, horizon, fault_cap>>
    /\ UNCHANGED sigvars
    /\ UNCHANGED nonbot

\* no follow-up: the probability draw, self.running or generate_reply_content says no
FollowUpSkip ==
    /\ pc = "followup"
    /\ pc' = "attempt"
    /\ UNCHANGED <<cfg, now, twitter_handler, last_tweet_time, status_file, base_delay,
                   jitter2, delay2, eligible, retries, success, tweet_id, retry_count,
                   last_reply_time, reply_id, submitted, posted_last, prev_tweet_time,
                   mark_time, mark_count, horizon, faults, fault_cap>>
    /\ UNCHANGED sigvars
    /\ UNCHANGED nonbot

\* reply_to_tweet returns an id (the dry-run id, or the id read from the page)
ReplyPosted ==
    /\ pc = "followup" /\ bot_running
    /\ check_rate_limit(cfg, last_reply_time, now)
    /\ last_reply_time' = now
    /\ reply_id' = 1
    /\ pc' = "attempt"
    /\ UNCHANGED <<cfg, now, twitter_handler, last_tweet_time, status_file, base_delay,
                   jitter2, delay2, eligible, retries, success, tweet_id, retry_count,
                   submitted, posted_last, prev_tweet_time, mark_time, mark_count,
                   horizon, faults, fault_cap>>
    /\ UNCHANGED sigvars
    /\ UNCHANGED nonbot

\* reply_to_tweet returns None: refused by the rate check, a timeout, no id on
\* the page, or an exception (also one raised while storing the reply)
ReplyFails ==
    /\ pc = "followup" /\ bot_running
    /\ reply_id' = None
    /\ pc' = "attempt"
    /\ UNCHANGED <<cfg, now, twitter_handler, last_tweet_time, status_file, base_delay,
                   jitter2, delay2, eligible, retries, success, tweet_id, retry_count,
                   last_reply_time, submitted, posted_last, prev_tweet_time, mark_time,
                   mark_count, horizon, faults, fault_cap>>
    /\ UNCHANGED sigvars
    /\ UNCHANGED nonbot

\* "time.sleep(min(300, self.min_delay))" at the bottom of the loop
Sleep ==
    /\ pc = "sleep"
    /\ now < horizon
    /\ now' = now + SleepTime(cfg)
    /\ pc' = "top"
    /\ UNCHANGED <<cfg, twitter_handler, last_tweet_time, status_file, base_delay,
                   jitter2, delay2, eligible, retries, success, tweet_id, retry_count,
                   last_reply_time, reply_id, submitted, posted_last, prev_tweet_time,
                   mark_time, mark_count, horizon, faults, fault_cap>>
    /\ UNCHANGED sigvars
    /\ UNCHANGED nonbot

----------------------------------------------------------------------------
(* SIGINT / SIGTERM: handle_shutdown runs in the main thread, wherever run() is *)

\* positions of run() at which a signal can arrive
LivePositions == {"top", "checked", "attempt", "post_tweet", "posted", "save",
                  "followup", "sleep"}

\* handle_shutdown up to sys.exit: the flag is cleared, save_status writes the
\* checkpoint (or fails and swallows the error), the handler is deleted
HandleShutdown(written) ==
    /\ bot_running' = FALSE
    /\ status_file' = IF written THEN last_tweet_time ELSE status_file
    /\ status_running' = IF written THEN IsRunningField(FALSE) ELSE status_running
    /\ twitter_handler' = FALSE

\* the process ends: the locals of run() and of post_tweet are gone
ProcessEnds ==
    /\ pc' = "stopped"
    /\ retries' = 0 /\ success' = FALSE /\ retry_count' = 0
    /\ tweet_id' = None /\ reply_id' = None /\ last_reply_time' = None
    /\ submitted' = 0
    /\ ClearDraw

\* sys.exit(0) raises SystemExit where run() is; "except Exception" does not
\* catch it and the process ends
Shutdown ==
    /\ pc \in LivePositions /\ bot_running
    /\ Fault
    /\ HandleShutdown(TRUE)
    /\ ProcessEnds
    /\ UNCHANGED <<cfg, now, last_tweet_time, posted_last, prev_tweet_time, mark_time,
                   mark_count, horizon, fault_cap, loaded>>
    /\ UNCHANGED nonbot

\* the same, and save_status could not write the file
ShutdownSaveFails ==
    /\ pc \in LivePositions /\ bot_running
    /\ Fault
    /\ HandleShutdown(FALSE)
    /\ ProcessEnds
    /\ UNCHANGED <<cfg, now, last_tweet_time, posted_last, prev_tweet_time, mark_time,
                   mark_count, horizon, fault_cap, loaded>>
    /\ UNCHANGED nonbot

\* the signal arrives inside one of the "try: ... except:" blocks of post_tweet:
\* the bare except swallows SystemExit and post_tweet goes on
ShutdownSwallowed ==
    /\ pc = "post_tweet" /\ bot_running
    /\ Fault
    /\ HandleShutdown(TRUE)
    /\ UNCHANGED <<cfg, now, pc, last_tweet_time, base_delay, jitter2, delay2, eligible,
                   retries, success, tweet_id, retry_count, last_reply_time, reply_id,
                   submitted, posted_last, prev_tweet_time, mark_time, mark_count,
                   horizon, fault_cap, loaded>>
    /\ UNCHANGED nonbot

\* "while self.running" is false: run() returns and the process ends
RunReturns ==
    /\ pc = "top" /\ ~bot_running
    /\ ProcessEnds
    /\ UNCHANGED <<cfg, now, twitter_handler, last_tweet_time, status_file,
                   posted_last, prev_tweet_time, mark_time, mark_count, horizon,
                   faults, fault_cap>>
    /\ UNCHANGED sigvars
    /\ UNCHANGED nonbot

----------------------------------------------------------------------------
(* The process is killed, and started again *)

\* the process is killed at any point of run()
Crash ==
    /\ pc \in {"top", "checked", "attempt", "post_tweet", "posted", "save",
               "followup", "sleep"}
    /\ Fault
    /\ pc' = "dead"
    /\ UNCHANGED <<cfg, now, twitter_handler, last_tweet_time, status_file, base_delay,
                   jitter2, delay2, eligible, retries, success, tweet_id, retry_count,
                   last_reply_time, reply_id, submitted, posted_last, prev_tweet_time,
                   mark_time, mark_count, horizon, fault_cap>>
    /\ UNCHANGED sigvars
    /\ UNCHANGED nonbot

\* ContinuousTwitterBot.__init__: load_status reads the status file, nothing else
Restart ==
    /\ pc \in {"dead", "stopped"}
    /\ pc' = "top"
    /\ twitter_handler' = FALSE
    /\ last_tweet_time' = LoadStatus(status_file)
    /\ loaded' = status_file
    /\ bot_running' = TRUE
    /\ last_reply_time' = None
    /\ retries' = 0 /\ success' = FALSE /\ retry_count' = 0
    /\ tweet_id' = None /\ reply_id' = None
    /\ submitted' = 0
    /\ ClearDraw
    /\ UNCHANGED <<cfg, now, status_file, posted_last, prev_tweet_time, mark_time,
                   mark_count, horizon, faults, fault_cap, status_running>>
    /\ UNCHANGED nonbot

----------------------------------------------------------------------------
(* get_next_tweet_delay and should_post_tweet as functions: every draw, at   *)
(* chosen times after an action recorded at time 0                           *)

\* should_post_tweet() called at time t, with every draw of its delay
ShouldPostTweetAt ==
    /\ pc = "fn"
    /\ \E base \in BaseDelays(cfg), j2 \in Jitters2(cfg), t \in CheckTimes :
         /\ base_delay' = base
         /\ jitter2' = j2
         /\ delay2' = get_next_tweet_delay2(cfg, base, j2)
         /\ now' = t
         /\ eligible' = should_post_tweet(cfg, last_tweet_time, t,
                                          get_next_tweet_delay2(cfg, base, j2))
    /\ pc' = "fn_checked"
    /\ UNCHANGED <<cfg, twitter_handler, last_tweet_time, status_file, retries,
                   success, tweet_id, retry_count, last_reply_time, reply_id,
                   submitted, posted_last, prev_tweet_time, mark_time, mark_count,
                   horizon, faults, fault_cap>>
    /\ UNCHANGED sigvars
    /\ UNCHANGED nonbot

----------------------------------------------------------------------------
(* Specifications *)

BotInit(configs, h, f) ==
    /\ cfg \in configs
    /\ horizon = h /\ faults = 0 /\ fault_cap = f
    /\ now = 0
    /\ pc = "top"
    /\ twitter_handler = FALSE
    /\ last_tweet_time = None
    /\ status_file = None
    /\ base_delay = 0 /\ jitter2 = 0 /\ delay2 = 0
    /\ eligible = FALSE
    /\ retries = 0 /\ success = FALSE
    /\ tweet_id = None /\ retry_count = 0
    /\ last_reply_time = None /\ reply_id = None
    /\ submitted = 0 /\ posted_last = None /\ prev_tweet_time = None
    /\ mark_time = None /\ mark_count = 0
    /\ bot_running = TRUE /\ status_running = "none" /\ loaded = None
    /\ RedditInit
    /\ ThreadInit
    /\ SuperInit
    /\ LimitInit
    /\ ManagerInit
    /\ StatsInit
    /\ TableInit
    /\ GateInit
    /\ TweetInit

BotNext ==
    \/ InitHandlerOk \/ InitHandlerFail
    \/ ShouldPostTweet \/ Dispatch \/ LoopExit
    \/ GenerateNoContent \/ AttemptRaises \/ EnterPostTweet
    \/ PostAttemptFails \/ PostAborted \/ PostSubmitted \/ PostSubmittedNoId
    \/ PostExhausted
    \/ RecordTweet \/ PostFailed \/ SaveStatus \/ SaveStatusFails
    \/ FollowUpSkip \/ ReplyPosted \/ ReplyFails
    \/ Sleep

\* one run of the bot, short intervals
Init == BotInit(Configs, MaxTime, MaxFaults)
Next == BotNext
Spec == Init /\ [][Next]_vars

\* the bot with kills and restarts
NextCrash == BotNext \/ Crash \/ Restart
SpecCrash == Init /\ [][NextCrash]_vars

\* the bot with shutdown signals and restarts
NextSignal ==
    \/ BotNext
    \/ Shutdown \/ ShutdownSaveFails \/ ShutdownSwallowed
    \/ RunReturns
    \/ Restart
SpecSignal == Init /\ [][NextSignal]_vars

\* one run of the bot over more than an hour, with at most one injected failure
InitHour == BotInit(HourConfigs, HourHorizon, 1)
SpecHour == InitHour /\ [][BotNext]_vars

\* the delay function alone, an action recorded at time 0
InitDelay ==
    /\ cfg \in DelayConfigs
    /\ horizon = 0 /\ faults = 0 /\ fault_cap = 0
    /\ now = 0
    /\ pc = "fn"
    /\ twitter_handler = TRUE
    /\ last_tweet_time = 0
    /\ status_file = 0
    /\ base_delay = 0 /\ jitter2 = 0 /\ delay2 = 0
    /\ eligible = FALSE
    /\ retries = 0 /\ success = FALSE
    /\ tweet_id = None /\ retry_count = 0
    /\ last_reply_time = None /\ reply_id = None
    /\ submitted = 0 /\ posted_last = 0 /\ prev_tweet_time = None
    /\ mark_time = None /\ mark_count = 0
    /\ bot_running = TRUE /\ status_running = "none" /\ loaded = None
    /\ RedditInit
    /\ ThreadInit
    /\ SuperInit
    /\ LimitInit
    /\ ManagerInit
    /\ StatsInit
    /\ TableInit
    /\ GateInit
    /\ TweetInit
NextDelay == ShouldPostTweetAt
SpecDelay == InitDelay /\ [][NextDelay]_vars

\* the Reddit worker with kills and restarts; the Twitter bot stays idle
InitReddit == BotInit({[tph |-> 6, md |-> 300]}, 0, 0)
SpecReddit == InitReddit /\ [][RedditNext]_vars

\* threads calling process_subreddits on one shared RedditHandler
SpecThreads == InitReddit /\ [][ThreadNext]_vars

\* the workers and the supervision loop of MultiPlatformBot.start
SpecSuper == InitReddit /\ [][SuperNext]_vars

\* calls of a function decorated with handle_rate_limit, every outcome of func
SpecRateLimit == InitReddit /\ [][LimitNext]_vars

\* a personality manager over every registry, called in every order
SpecManager == InitReddit /\ [][ManagerNext]_vars

\* schema initialization and the Eliza chat responder on one database file
SpecStats == InitReddit /\ [][StatsNext]_vars

\* statements on the posts table, for every platform and id
SpecTable == InitReddit /\ [][TableNext]_vars

\* post_tweet and reply_to_tweet called on one handler at any times
SpecGate == InitReddit /\ [][GateNext]_vars

SpecTweet == InitReddit /\ [][TweetNext]_vars

\* the main thread is scheduled: a step of start() that can be taken is taken
SpecSuperFair == SpecSuper /\ WF_vars(SupervisorNext)

----------------------------------------------------------------------------
(* Properties of the scheduler and of the Twitter posting path *)

AtMostOnceTweet == submitted <= 1

\* C6 (as claimed): an eligibility check that passes is at least min_interval
\* after the true last action, also after a kill and a restart
CrashResumeGate ==
    (pc = "checked" /\ eligible /\ posted_last # None)
        => now - posted_last >= MinInterval(cfg)

\* C7 (as claimed): with 6 actions per hour and an action recorded at 0, the
\* check is False at 300 and 590 and True at 650, for every draw
EligibilityThresholdsClaimed ==
    (pc = "fn_checked" /\ cfg.tph = 6) =>
        /\ now \in {300, 590} => ~eligible
        /\ now = 650 => eligible

\* C7 (amended): False at 300 and 590 for every draw; at 650 True exactly for
\* the draws with base_delay + jitter <= 650; True for every draw only from
\* max_interval + min_delay/2 on
EligibilityThresholds ==
    (pc = "fn_checked" /\ cfg.tph = 6) =>
        /\ now \in {300, 590} => ~eligible
        /\ now = 650 => (eligible <=> 2 * base_delay + jitter2 <= 2 * 650)
        /\ 2 * now >= 2 * 1200 + cfg.md => eligible

\* the check at 650 refused for a draw above 650
EligibilityThresholdsWitness ==
    /\ pc = "fn_checked" /\ cfg.tph = 6 /\ cfg.md = 7
    /\ now = 650 /\ ~eligible /\ base_delay = 651 /\ jitter2 = 0

\* C8: the delay returned lies between min_interval and max_interval + min_delay/2
DelayBounds ==
    pc = "fn_checked" =>
        /\ delay2 >= 2 * MinInterval(cfg)
        /\ delay2 <= 2 * MaxInterval(cfg) + cfg.md
        /\ MaxInterval(cfg) = 2 * MinInterval(cfg)

\* the largest delay, reached with an odd min_delay (a half-second jitter)
DelayBoundsWitness ==
    /\ pc = "fn_checked" /\ cfg.md = 3
    /\ delay2 = 2 * MaxInterval(cfg) + cfg.md

\* C9: no window of 3600 seconds holds more than tweets_per_hour recorded
\* tweets: the tweet that is number tweets_per_hour + 1 counted from any
\* recorded tweet comes at least 3600 seconds after it
HourlyCap ==
    mark_count = cfg.tph + 1 => last_tweet_time - mark_time >= SecondsPerHour

\* tweets_per_hour = 7 does not divide 3600, and 8 tweets were recorded
HourlyCapWitness ==
    /\ cfg.tph = 7 /\ mark_count = 8
    /\ last_tweet_time - mark_time < SecondsPerHour + 100

\* C10: last_tweet_time is assigned only in the step that follows a post_tweet
\* which returned an id, last_reply_time only in a reply_to_tweet that returns one
RecordOnlyOnSuccess ==
    [][ /\ last_tweet_time' # last_tweet_time => (pc = "posted" /\ tweet_id # None)
        /\ (last_reply_time' # last_reply_time /\ last_reply_time' # None)
              => (pc = "followup" /\ reply_id' # None) ]_vars

\* a failed posting attempt after a recorded tweet: the recorded time stays
RecordOnlyOnSuccessWitness ==
    /\ pc = "posted" /\ tweet_id = None
    /\ last_tweet_time # None /\ last_tweet_time < now
    /\ last_reply_time # None

----------------------------------------------------------------------------
(* Properties of the Reddit worker and of the store *)

\* C2 (as claimed): the Reddit worker submits at most one comment to every
\* external post, over any sequence of cycles, kills and restarts
AtMostOnceComment == \A p \in PostIds : ext_comments[p] <= 1

\* C4: when the scan meets a post that is already stored, in the same or in a
\* later cycle, the posts table keeps exactly one row for it, no INSERT hits
\* the UNIQUE constraint (so no exception is raised, and none leaves
\* process_subreddits), and the encounter changes neither the store nor the
\* comments on Reddit: the loop body goes straight to conn.commit()
IdempotentIngestion ==
    /\ [](/\ \A p \in PostIds : tx.posts[p] <= 1 /\ db.posts[p] <= 1
          /\ ~dup_insert)
    /\ [][ (/\ r_pc = "scan" /\ listing # {}
            /\ tx.posts[Newest(listing)] > 0
            /\ listing' = listing \ {Newest(listing)}
            /\ cur' = Newest(listing))
           => (/\ tx' = tx /\ db' = db
               /\ ext_comments' = ext_comments
               /\ r_pc' = "commit") ]_vars

\* in its second cycle the worker meets a post it stored and commented before
IdempotentIngestionWitness ==
    /\ r_pc = "commit" /\ item = "seen" /\ cycles = 2 /\ restarts = 0
    /\ db.posts[cur] = 1 /\ tx.posts[cur] = 1
    /\ ext_comments[cur] = 1

\* C5 (as claimed): every committed state holds as many comment rows as stat
\* updates made for comments
AtomicRecording == db.comments = db.stats

\* C14 (as claimed): when an item of a cycle failed (and neither the cycle nor
\* the listing did), the cycle still met every post that was on the subreddit
\* when it started (at most ListLimit posts exist within the bounds)
PartialFailureTolerance ==
    (r_pc = "idle" /\ failure = "item") => (1 .. at_start) \subseteq scanned

\* C15: while the content generator is down, no step of a cycle changes the
\* stats row (pending or committed), submits a comment or submits a post; the
\* cycle runs on and ends back in the worker loop
GeneratorFailureFrame ==
    [][ (~gen_ok /\ r_pc # "dead" /\ r_pc' # "dead")
        => (/\ db'.stats = db.stats /\ tx'.stats = tx.stats
            /\ ext_comments' = ext_comments
            /\ own_submitted' = own_submitted
            /\ r_pc' \in {"idle", "own", "scan", "item_comment", "commit"}) ]_vars

\* with the generator down, a cycle stored a new post and skipped its comment
GeneratorFailureFrameWitness ==
    /\ ~gen_ok /\ r_pc = "commit" /\ item = "stored"
    /\ tx.posts[cur] = 1 /\ ext_comments[cur] = 0

\* C16 (as claimed): once a comment was submitted to a post and persisting it
\* failed, no later step of the same run submits a comment to that post
NoRetryAfterUnpersisted ==
    [][ \A p \in ahead : ext_comments'[p] = ext_comments[p] ]_vars

\* C11: when the body of a scoped database operation raises, the writes pending
\* on the connection are rolled back, the thread's transaction counter is
\* decremented, and the exception that reaches the caller is the one raised
RollbackOnFailure ==
    [][ \A t \in Threads :
          (t_pc[t] = "failed" /\ t_pc'[t] = "after")
          => (/\ conn_local[t] # 0 => ~pending'[conn_local[t]]
              /\ caught'[t] = exc[t]
              /\ tl'[Slot(t)].transaction_count
                   = tl[Slot(t)].transaction_count - 1) ]_vars

\* C12: the transaction counter of a thread equals the number of scoped
\* operations in progress on it, so it is at least 1 inside one, and a
\* connection is marked inactive only when none is in progress
TransactionCounter ==
    \A t \in Threads :
        /\ tl[Slot(t)].transaction_count = InProgress(t)
        /\ (tl[Slot(t)].db_conn # 0 /\ ~tl[Slot(t)].connection_active)
           => InProgress(t) = 0

\* C13: every connection and cursor is used only by the thread that opened
\* it, and no thread holds a connection that another thread opened
ThreadConfinement ==
    /\ ~foreign_use
    /\ \A t \in Threads :
         /\ conn_local[t] \in {0, t}
         /\ tl[Slot(t)].db_conn \in {0, t}
         /\ tl[Slot(t)].db_cursor \in {0, t}

\* two threads are in the body of a scoped operation at the same time, each
\* with pending writes on its connection
ThreadConfinementWitness ==
    /\ t_pc[1] = "body" /\ t_pc[2] = "body"
    /\ conn_local[1] = 1 /\ conn_local[2] = 2
    /\ pending[1] /\ pending[2]

\* C17: while the orchestrator is running, a worker thread that died is
\* replaced by a new worker of the same platform, after at most as many polls
\* as there are platforms, also when several workers die between two polls
SupervisionLiveness ==
    /\ [](\A p \in Platforms : missed[p] <= Len(handlers))
    /\ \A p \in Platforms :
         (running /\ w_pc[p] = "dead")
            ~> (Alive(w_pc[p]) \/ ~running \/ sup_pc = "stopped")

\* both workers died; the first was replaced in one poll, the second, skipped
\* by that poll, has just been replaced by the next one
SupervisionLivenessWitness ==
    /\ running
    /\ handlers = <<"reddit", "eliza">>
    /\ deaths = 2
    /\ sup_pc = "remove" /\ sup_p = "eliza" /\ sup_i = 1
    /\ Alive(w_pc["reddit"]) /\ Alive(w_pc["eliza"])

\* C18: once the running flag is false, by the interrupt or by stop(), the
\* orchestrator starts no new worker thread
NoRestartAfterStop ==
    [][ (sup_pc = "start" /\ sup_pc' = "remove") => running ]_vars

\* C19: while the running flag is true, a worker whose cycle raised sleeps the
\* 60 s backoff and then starts another cycle; the loop of the worker is left
\* only when the running flag is false
WorkerOutlivesFailure ==
    [][ \A p \in Platforms :
          /\ (running /\ w_pc[p] = "except" /\ w_pc'[p] \notin {"except", "dead"})
             => (w_pc'[p] = "backoff" /\ w_sleep'[p] = Backoff)
          /\ (w_pc[p] = "backoff" /\ w_pc'[p] \notin {"backoff", "dead"})
             => w_pc'[p] = "check"
          /\ (running /\ w_pc[p] = "check" /\ w_pc'[p] # "check")
             => w_pc'[p] = "cycle"
          /\ (w_pc[p] # "exited" /\ w_pc'[p] = "exited") => ~running ]_vars

\* a worker whose cycle raised is in another cycle, the flag still true
WorkerOutlivesFailureWitness ==
    running /\ w_fail["reddit"] /\ w_pc["reddit"] = "cycle"

\* C20: after the interrupt the orchestrator reaches Stopped, and has waited
\* at most the join timeout for each worker, also when a worker never ends
BoundedShutdown ==
    /\ [](waited <= JoinTimeout * Len(threads))
    /\ (sup_pc = "joining") ~> (sup_pc = "stopped")

\* the orchestrator stopped after the full timeout for each of two workers,
\* one of them still in its cycle
BoundedShutdownWitness ==
    /\ sup_pc = "stopped"
    /\ Len(threads) = 2
    /\ waited = 2 * JoinTimeout
    /\ w_pc["reddit"] = "cycle"

----------------------------------------------------------------------------
(* Properties of shutdown and restart of the continuous bot *)

\* C21: a shutdown signal does not cut an external action short: the process
\* never stops while post_tweet is running or while a tweet that was posted
\* is not yet recorded
CooperativeCancellation ==
    [][ (pc' = "stopped" /\ pc # "stopped")
        => ~(pc = "post_tweet" \/ (pc = "posted" /\ tweet_id # None)) ]_vars

\* C22: when the process has stopped after a shutdown signal, the status file
\* says is_running false and holds the time of the last successful action
CheckpointOnStop ==
    pc = "stopped" => (status_running = "false" /\ status_file = posted_last)

\* C23: a bot started with a checkpoint whose last action time is T attempts
\* no tweet before T + min_interval
ResumedPacing ==
    (loaded # None /\ pc \in {"attempt", "post_tweet", "posted"})
        => now - loaded >= MinInterval(cfg)

\* a tweet posted by a bot that was started with a checkpoint
ResumedPacingWitness ==
    /\ loaded # None /\ pc = "posted" /\ tweet_id # None
    /\ posted_last - loaded >= MinInterval(cfg)

\* C24: a failed construction of a platform handler ends the process: the
\* bot does not stay in its loop to construct the handler again
ConstructionFailureFatal ==
    [][ (pc = "top" /\ ~twitter_handler /\ ~twitter_handler') => pc' # "top" ]_vars

\* C25: a posting cycle makes at most max_retries attempts, and when all of
\* them have failed, in whatever way, the Twitter handler has been discarded
RetryExhaustionTeardown ==
    /\ retries <= BotMaxRetries
    /\ (pc = "attempt" /\ retries >= BotMaxRetries /\ ~success) => ~twitter_handler

----------------------------------------------------------------------------
(* Properties of handle_rate_limit *)

\* C26: func is invoked at most 3 times; the k-th rate-limit error is followed
\* by a wait of 60*k seconds; after the third one the caller gets None; an
\* error that is not a rate-limit error reaches the caller from the invocation
\* that raised it, with no further invocation
BoundedRateLimitRetry ==
    /\ rl_calls <= RateLimitMaxRetries
    /\ \A k \in 1 .. Len(rl_waits) : rl_waits[k] = RateLimitDelay * k
    /\ rl_kind = "none" <=> (rl_pc \in {"done", "idle"} /\ Len(rl_waits) = RateLimitMaxRetries)
    /\ rl_kind = "raised"
         => (~IsRateLimit(rl_error) /\ rl_calls = Len(rl_waits) + 1)
    /\ rl_pc = "done" => rl_kind \in {"value", "none", "raised"}

\* three rate-limit errors: waits of 60, 120 and 180 seconds, then None
BoundedRateLimitRetryWitness ==
    /\ rl_pc = "done" /\ rl_kind = "none"
    /\ rl_calls = 3
    /\ rl_waits = <<60, 120, 180>>

----------------------------------------------------------------------------
(* Properties of the personality manager *)

\* C27: get_contrasting_personality returns a personality that supports the
\* platform and has another name whenever there is one; only when there is
\* none it returns the current personality, and it returns (no exception)
ContrastingPersonality ==
    pm_op.op = "contrasting" =>
        /\ pm_outcome = "returned"
        /\ IF \E n \in DOMAIN personalities :
                 n # pm_op.arg /\ Supports(n, pm_op.platform)
           THEN pm_ret # pm_op.arg /\ pm_ret \in DOMAIN personalities
                /\ Supports(pm_ret, pm_op.platform)
           ELSE pm_ret = pm_op.arg

\* another supporting personality was returned although the
\* current one supports the platform too
ContrastingPersonalityWitness ==
    /\ pm_op.op = "contrasting" /\ pm_outcome = "returned"
    /\ pm_ret # pm_op.arg
    /\ Supports(pm_op.arg, pm_op.platform)
    /\ Supports(pm_ret, pm_op.platform)

\* C28: a thread that has an owner gets its owner from every call in which
\* the owner supports the platform asked for, and the map entry of a thread
\* with an owner changes only in a call for that thread in which the owner
\* does not support the platform, to the personality that call returns
ThreadAffinitySticky ==
    [][ /\ \A t \in ThreadIds :
             (/\ pm_loaded
              /\ conversation_threads[t] # NoPersonality
              /\ conversation_threads'[t] # conversation_threads[t])
             => /\ pm_calls' # pm_calls
                /\ pm_op'.op = "thread" /\ pm_op'.arg = t
                /\ ~Supports(conversation_threads[t], pm_op'.platform)
                /\ conversation_threads'[t] = pm_ret'
        /\ (/\ pm_calls' # pm_calls
            /\ pm_op'.op = "thread"
            /\ conversation_threads[pm_op'.arg] # NoPersonality
            /\ Supports(conversation_threads[pm_op'.arg], pm_op'.platform))
           => /\ pm_ret' = conversation_threads[pm_op'.arg]
              /\ conversation_threads' = conversation_threads ]_vars

\* the owner answered again, while the other thread has another owner and
\* other personalities support the platform too
ThreadAffinityStickyWitness ==
    /\ pm_op.op = "thread"
    /\ pm_prev[pm_op.arg] # NoPersonality
    /\ pm_ret = pm_prev[pm_op.arg]
    /\ \E t \in ThreadIds : conversation_threads[t] \notin {NoPersonality, pm_ret}
    /\ Cardinality(ValidPersonalities(pm_op.platform)) >= 2

----------------------------------------------------------------------------
(* Properties of the statistics tables *)

\* C29: the committed counters of the 'reddit' row of platform_stats and of
\* the acting personality's row of personality_stats equal the numbers of
\* committed post rows and comment rows (the personality's counters: every
\* comment row, and the post rows that have a personality)
StatsFollowActions ==
    /\ db.total_posts = PostRows(db)
    /\ db.total_comments = db.comments
    /\ db.personality_stats >= db.comments
    /\ db.personality_stats <= PostRows(db) + db.comments

\* C30: once init_database has run, platform_stats holds exactly one row for
\* reddit, twitter and eliza, and after a successful process_message the
\* total_interactions of eliza is greater than 0
OneStatsRowPerPlatform ==
    db_initialized =>
        /\ \A p \in RunPlatforms : platform_stats[p].rows = 1
        /\ ez_outcome = "ok" => platform_stats["eliza"].total_interactions > 0

----------------------------------------------------------------------------
(* Properties of the stored history *)

\* C31: a committed post row, comment row or stats count is there in every
\* later state, also after the process is stopped and started again
HistorySurvivesRestart ==
    [][ /\ \A p \in PostIds : db'.posts[p] >= db.posts[p]
        /\ db'.comments >= db.comments
        /\ db'.stats >= db.stats ]_vars

\* C32: a post is identified by platform and external id: an INSERT is
\* rejected only when a row with the same platform and id is stored, and an
\* incoming item is seen only when a row with its platform and id is stored
PostIdentity ==
    /\ pt_outcome = "IntegrityError" => HasRow(posts_table, pt_op[1], pt_op[2])
    /\ pt_outcome = "seen" => HasRow(posts_table, pt_op[1], pt_op[2])

----------------------------------------------------------------------------
(* Properties of the Eliza chat responder *)

SessionTimeoutExact ==
    [][ ez_op'.op = "cleanup"
        => /\ \A s \in SessionIds :
                eliza_sessions[s].state = "active"
                => (eliza_sessions'[s].state = "ended"
                      <=> ez_clock - eliza_sessions[s].last_activity >= ez_op'.arg)
           /\ ez_ret' = Cardinality({ s \in SessionIds :
                            /\ eliza_sessions[s].state = "active"
                            /\ ez_clock - eliza_sessions[s].last_activity >= ez_op'.arg }) ]_vars

----------------------------------------------------------------------------
(* Properties of the rate gate of the TwitterHandler *)

\* C34: a post_tweet called less than min_delay_between_actions after a
\* post_tweet that returned an id returns None and does not go on to the
\* browser, and likewise a reply_to_tweet after a reply that returned an id
HandlerRateGate ==
    [][ /\ (/\ h_calls' # h_calls /\ h_op'.op = "post_tweet"
            /\ h_ok_tweet # None /\ h_clock - h_ok_tweet < cfg.md)
           => (~h_op'.ok /\ h_external' = h_external)
        /\ (/\ h_calls' # h_calls /\ h_op'.op = "reply_to_tweet"
            /\ h_ok_reply # None /\ h_clock - h_ok_reply < cfg.md)
           => (~h_op'.ok /\ h_external' = h_external) ]_vars

----------------------------------------------------------------------------
(* Properties of the Reddit worker's use of the store *)

\* C35: while the Reddit worker is inside _process_comments, where it waits
\* for the content generator and for the platform, its connection holds no
\* uncommitted write
NoWriteHeldInExternalCall ==
    r_pc \in {"own_comment", "item_comment"} => tx = db

----------------------------------------------------------------------------
(* Properties of Tweet *)

\* C37: after construction and after add_personality_signature the content
\* of a tweet is at most MAX_TWEET_LENGTH characters long
TweetLengthBounded ==
    tw_pc \in {"built", "signed"} => tw_content <= MAX_TWEET_LENGTH

----------------------------------------------------------------------------
(* Progress of the continuous bot *)

\* C38 as stated: with no failure, a tweet is recorded no later than
\* maxInterval + minDelay/2 plus one poll interval after the tweet before it
\* (times doubled)
PostingDeadline ==
    (faults = 0 /\ prev_tweet_time # None /\ last_tweet_time # None)
        => 2 * (last_tweet_time - prev_tweet_time)
               <= 2 * MaxInterval(cfg) + cfg.md + 2 * SleepTime(cfg)

\* C38, amended: an eligibility check made maxInterval + minDelay/2 or more
\* after the recorded tweet succeeds whatever the random draw, where
\* maxInterval is twice minInterval; the posting attempt starts at that check
\* and the tweet is recorded after the time the attempt takes
EligibleAfterLongestDelay ==
    [][ ( /\ pc = "top" /\ pc' = "checked"
          /\ last_tweet_time # None
          /\ 2 * (now - last_tweet_time) >= 4 * MinInterval(cfg) + cfg.md )
        => eligible' ]_vars

EligibleAfterLongestDelayWitness ==
    /\ pc = "checked" /\ eligible
    /\ faults = 0
    /\ last_tweet_time # None
    /\ 2 * (now - last_tweet_time) >= 4 * MinInterval(cfg) + cfg.md
    /\ delay2 = 4 * MinInterval(cfg) + cfg.md

----------------------------------------------------------------------------
(* One worker per platform *)

\* C39: a worker thread of a platform is started (by the first loop of
\* start() or by a supervision poll) only while no worker of that platform is
\* alive, and the list threads never holds two current threads of a platform:
\* no platform has two live workers
OneLiveWorker ==
    [][ \A p \in Platforms :
          /\ ( \/ (sup_pc = "launch" /\ Len(threads') > Len(threads)
                     /\ threads'[Len(threads')].name = p)
               \/ (sup_pc = "start" /\ sup_pc' = "remove" /\ sup_p = p) )
             => (~Alive(w_pc[p]) /\ Alive(w_pc'[p]))
          /\ Cardinality({k \in 1 .. Len(threads') :
                            threads'[k].name = p /\ ~threads'[k].old}) <= 1 ]_vars

OneLiveWorkerWitness ==
    /\ deaths = MaxDeaths
    /\ sup_pc = "remove"
    /\ running
    /\ Alive(w_pc[sup_p])
    /\ \E q \in Platforms : q # sup_p /\ Alive(w_pc[q])

----------------------------------------------------------------------------
(* Comments and their posts *)

\* C40: in every committed state of the store, each row of comments carries
\* the post_id of a row of posts: a comment is never committed before or
\* without its post
CommentsReferToPosts ==
    \A p \in PostIds : db.of_post[p] > 0 => db.posts[p] > 0

\* a committed comment on one post, beside a committed post without comment
CommentsReferToPostsWitness ==
    \E p, q \in PostIds :
        /\ db.of_post[p] > 0 /\ db.posts[p] > 0
        /\ db.posts[q] > 0 /\ db.of_post[q] = 0

====
